---- MODULE Spec2Model ----
(***************************************************************************)
(* ReceiptCard (frontend/src/components/Common/ReceiptCard.tsx and its     *)
(* copy in frontend/src/components/Sidebar/User.tsx): the zigzag path      *)
(* generator, the mask applier and the resize observer.                    *)
(*                                                                         *)
(* Every JavaScript number of the component is an IEEE-754 binary64 value. *)
(* The first part of the module is that arithmetic: a finite number is     *)
(* s * m * 2^e with the magnitude m an arbitrary-size natural (little-     *)
(* endian limbs), every operation computes the exact result and rounds it  *)
(* to 53 significant bits, ties to even, overflowing to Infinity.          *)
(***************************************************************************)
EXTENDS Integers, Sequences, FiniteSets, TLC

\* ------------------------------------------------------------------------
\* Naturals of arbitrary size: little-endian sequences of limbs, the most
\* significant limb non-zero, zero is the empty sequence.
\* ------------------------------------------------------------------------
LimbBits == 15

Base == 2^LimbBits

SetMax(S) == CHOOSE x \in S : \A y \in S : y <= x

SetMin(S) == CHOOSE x \in S : \A y \in S : x <= y

Trim(A) == SubSeq(A, 1, SetMax({0} \cup {i \in 1..Len(A) : A[i] # 0}))

RECURSIVE BigFromInt(_)
BigFromInt(n) ==
  IF n = 0 THEN <<>> ELSE <<n % Base>> \o BigFromInt(n \div Base)

RECURSIVE BigToInt(_)
BigToInt(A) ==
  IF A = <<>> THEN 0 ELSE Head(A) + Base * BigToInt(Tail(A))

IntBitLen(n) == CHOOSE k \in 0..LimbBits : (n < 2^k) /\ (k = 0 \/ n >= 2^(k-1))

BigBitLen(A) ==
  IF A = <<>> THEN 0 ELSE LimbBits * (Len(A) - 1) + IntBitLen(A[Len(A)])

BigBit(A, p) ==
  IF (p \div LimbBits) + 1 > Len(A) THEN 0
  ELSE (A[(p \div LimbBits) + 1] \div 2^(p % LimbBits)) % 2

\* some bit below position p is set
BigLowNonZero(A, p) ==
  \E i \in 1..Len(A) :
     \/ i < (p \div LimbBits) + 1 /\ A[i] # 0
     \/ i = (p \div LimbBits) + 1 /\ A[i] % 2^(p % LimbBits) # 0

\* A shifted right by d limbs and b bits
ShrLimbs(A, d, b) ==
  IF Len(A) - d <= 0 THEN <<>>
  ELSE Trim([i \in 1..(Len(A) - d) |->
              (A[i+d] \div 2^b)
              + (IF i + d < Len(A)
                   THEN (A[i+d+1] % 2^b) * 2^(LimbBits - b) ELSE 0)])

BigShr(A, sh) == ShrLimbs(A, sh \div LimbBits, sh % LimbBits)

\* A shifted left by d limbs and b bits
ShlLimbs(A, d, b) ==
  IF A = <<>> THEN <<>>
  ELSE Trim([i \in 1..(Len(A) + d + 1) |->
              (IF i - d >= 1 /\ i - d <= Len(A)
                 THEN (A[i-d] % 2^(LimbBits - b)) * 2^b ELSE 0)
              + (IF i - d >= 2 /\ i - d <= Len(A) + 1
                   THEN A[i-d-1] \div 2^(LimbBits - b) ELSE 0)])

BigShl(A, sh) == ShlLimbs(A, sh \div LimbBits, sh % LimbBits)

\* the order of two naturals of equal length that differ last at limb i
CmpLimb(A, B, i) ==
  IF i = 0 THEN 0 ELSE IF A[i] < B[i] THEN -1 ELSE 1

BigCmp(A, B) ==
  IF Len(A) # Len(B) THEN (IF Len(A) < Len(B) THEN -1 ELSE 1)
  ELSE CmpLimb(A, B, SetMax({0} \cup {i \in 1..Len(A) : A[i] # B[i]}))

RECURSIVE AddC(_, _, _)
\* t is the sum of the lowest limbs and the carry
AddLimb(A, B, t) ==
  <<t % Base>> \o AddC(IF A = <<>> THEN <<>> ELSE Tail(A),
                       IF B = <<>> THEN <<>> ELSE Tail(B),
                       t \div Base)

AddC(A, B, c) ==
  IF A = <<>> /\ B = <<>> THEN (IF c = 0 THEN <<>> ELSE <<c>>)
  ELSE AddLimb(A, B, (IF A = <<>> THEN 0 ELSE Head(A))
                     + (IF B = <<>> THEN 0 ELSE Head(B)) + c)

BigAdd(A, B) == AddC(A, B, 0)

RECURSIVE SubC(_, _, _)
\* t is the difference of the lowest limbs and the borrow
SubLimb(A, B, t) ==
  <<IF t < 0 THEN t + Base ELSE t>>
    \o SubC(Tail(A), IF B = <<>> THEN <<>> ELSE Tail(B),
            IF t < 0 THEN 1 ELSE 0)

\* A - B for A >= B
SubC(A, B, c) ==
  IF A = <<>> THEN <<>>
  ELSE SubLimb(A, B, Head(A) - (IF B = <<>> THEN 0 ELSE Head(B)) - c)

BigSub(A, B) == Trim(SubC(A, B, 0))

RECURSIVE MulC(_, _, _)
MulLimb(A, k, t) == <<t % Base>> \o MulC(Tail(A), k, t \div Base)

MulC(A, k, c) ==
  IF A = <<>> THEN (IF c = 0 THEN <<>> ELSE <<c>>)
  ELSE MulLimb(A, k, Head(A) * k + c)

RECURSIVE MulAcc(_, _)
MulAcc(A, B) ==
  IF B = <<>> THEN <<>>
  ELSE AddC(MulC(A, Head(B), 0), <<0>> \o MulAcc(A, Tail(B)), 0)

BigMul(A, B) == Trim(MulAcc(A, B))

\* number of trailing zero bits of A, whose lowest non-zero limb is limb i
TrailingZerosAt(A, i) ==
  LimbBits * (i - 1) + SetMin({c \in 0..(LimbBits - 1) : A[i] % 2^(c+1) # 0})

\* number of trailing zero bits of A # 0
BigTrailingZeros(A) == TrailingZerosAt(A, SetMin({j \in 1..Len(A) : A[j] # 0}))

\* Restoring division, one bit of N per step: the n bits of N from bit p
\* down; st is <<running remainder, quotient so far>>, R2 the remainder
\* with bit p of N appended
RECURSIVE DivBits(_, _, _, _, _)
DivStep(N, D, p, n, st, R2) ==
  IF BigCmp(R2, D) >= 0
    THEN DivBits(N, D, p - 1, n - 1,
                 <<BigSub(R2, D), AddC(BigShl(st[2], 1), <<1>>, 0)>>)
    ELSE DivBits(N, D, p - 1, n - 1, <<R2, BigShl(st[2], 1)>>)

DivBits(N, D, p, n, st) ==
  IF n = 0 THEN st
  ELSE DivStep(N, D, p, n, st,
               AddC(BigShl(st[1], 1),
                    IF BigBit(N, p) = 1 THEN <<1>> ELSE <<>>, 0))

\* <<N mod D, floor(N / D)>>: the bits of N from bit p down to bit 0, a
\* limb of n bits at a time
RECURSIVE DivLoop(_, _, _, _)
DivLimb(N, D, p, n, st) == DivLoop(N, D, p - n, DivBits(N, D, p, n, st))

DivLoop(N, D, p, st) ==
  IF p < 0 THEN st
  ELSE DivLimb(N, D, p, IF p + 1 < LimbBits THEN p + 1 ELSE LimbBits, st)

\* the bits of N above the lowest p + 1 are below D and start the remainder
DivFrom(N, D, p) == DivLoop(N, D, p, <<BigShr(N, p + 1), <<>>>>)

BigDivMod(N, D) == DivFrom(N, D, SetMax({BigBitLen(N) - BigBitLen(D), -1}))

\* ------------------------------------------------------------------------
\* JavaScript numbers (IEEE-754 binary64).  k is "fin", "Inf" or "NaN"; a
\* finite number is s * m * 2^e with m odd (or zero, then s = 1 and e = 0),
\* so equal numbers are equal records.  The sign of zero is not kept: -0
\* and 0 print the same in a template literal.
\* ------------------------------------------------------------------------
MantissaBits == 53

\* every finite number is below 2^MaxExponent
MaxExponent == 1024

\* the smallest positive number is 2^MinExponent
MinExponent == -1074

NaN == [k |-> "NaN", s |-> 1, m |-> <<>>, e |-> 0]

Infinity(s) == [k |-> "Inf", s |-> s, m |-> <<>>, e |-> 0]

Zero == [k |-> "fin", s |-> 1, m |-> <<>>, e |-> 0]

IsNaN(x) == x.k = "NaN"

IsFinite(x) == x.k = "fin"

IsZero(x) == x.k = "fin" /\ x.m = <<>>

\* s * m2 * 2^e2 with the tz trailing zero bits of m2 moved to the exponent
Canonical(s, m2, e2, tz) ==
  [k |-> "fin", s |-> s, m |-> BigShr(m2, tz), e |-> e2 + tz]

\* the number s * m2 * 2^e2: zero, Infinity on overflow
Pack(s, m2, e2) ==
  IF m2 = <<>> THEN Zero
  ELSE IF BigBitLen(m2) + e2 > MaxExponent THEN Infinity(s)
  ELSE Canonical(s, m2, e2, BigTrailingZeros(m2))

\* the sh bits dropped from M (and the sticky rest) round M >> sh up
RoundsUp(M, sh, sticky) ==
  /\ sh > 0
  /\ BigBit(M, sh - 1) = 1
  /\ (sticky \/ BigLowNonZero(M, sh - 1) \/ BigBit(M, sh) = 1)

\* M rounded to its bits from bit sh up
Shifted(s, M, e, sticky, sh) ==
  Pack(s,
       IF RoundsUp(M, sh, sticky)
         THEN AddC(BigShr(M, sh), <<1>>, 0) ELSE BigShr(M, sh),
       e + sh)

\* The double nearest to s * (M + d) * 2^e, where 0 <= d < 1 and d > 0 iff
\* sticky (then M has more than MantissaBits + 1 bits): ties to even.
RoundToDouble(s, M, e, sticky) ==
  Shifted(s, M, e, sticky,
          SetMax({BigBitLen(M) - MantissaBits, MinExponent - e, 0}))

\* the number of a (small) integer literal or DOM measurement
FromInt(n) ==
  RoundToDouble(IF n < 0 THEN -1 ELSE 1, BigFromInt(IF n < 0 THEN -n ELSE n),
                0, FALSE)

\* m * 2^e for integers m, e: the inputs that are not integers
Dyadic(n, e) ==
  RoundToDouble(IF n < 0 THEN -1 ELSE 1, BigFromInt(IF n < 0 THEN -n ELSE n),
                e, FALSE)

IsInteger(x) == x.k = "fin" /\ x.e >= 0

\* the integer of an integer-valued number of small magnitude
ToInt(x) == x.s * BigToInt(BigShl(x.m, x.e))

Neg(x) == IF IsNaN(x) \/ IsZero(x) THEN x ELSE [x EXCEPT !.s = -x.s]

\* -1, 0, 1: the order of the magnitudes of two finite numbers
\* ta, tb: the positions of the leading bits; lo: the lower exponent
MagCmpAt(a, b, ta, tb, lo) ==
  IF ta # tb THEN (IF ta < tb THEN -1 ELSE 1)
  ELSE BigCmp(BigShl(a.m, a.e - lo), BigShl(b.m, b.e - lo))

MagCmp(a, b) ==
  IF a.m = <<>> \/ b.m = <<>>
    THEN (IF a.m = b.m THEN 0 ELSE IF a.m = <<>> THEN -1 ELSE 1)
  ELSE MagCmpAt(a, b, BigBitLen(a.m) + a.e, BigBitLen(b.m) + b.e,
                IF a.e < b.e THEN a.e ELSE b.e)

SignOf(x) == IF IsZero(x) THEN 0 ELSE x.s

\* -1, 0, 1: the order of two numbers, neither NaN
NumCmp(a, b) ==
  IF SignOf(a) # SignOf(b) THEN (IF SignOf(a) < SignOf(b) THEN -1 ELSE 1)
  ELSE IF SignOf(a) = 0 THEN 0
  ELSE IF a.k = "Inf" \/ b.k = "Inf"
         THEN (IF a.k = b.k THEN 0 ELSE IF a.k = "Inf" THEN a.s ELSE -a.s)
  ELSE a.s * MagCmp(a, b)

\* a < b, a > b, a === b of JavaScript: false when an operand is NaN
NumLess(a, b) == ~IsNaN(a) /\ ~IsNaN(b) /\ NumCmp(a, b) < 0

NumGreater(a, b) == NumLess(b, a)

StrictEq(a, b) == ~IsNaN(a) /\ ~IsNaN(b) /\ NumCmp(a, b) = 0

\* a + b
\* A, B: the magnitudes of a and b in units of 2^lo
AddAligned(a, b, A, B, lo) ==
  RoundToDouble(IF a.s = b.s \/ BigCmp(A, B) >= 0 THEN a.s ELSE b.s,
                IF a.s = b.s THEN BigAdd(A, B)
                ELSE IF BigCmp(A, B) >= 0 THEN BigSub(A, B)
                ELSE BigSub(B, A),
                lo, FALSE)

AddAt(a, b, lo) ==
  AddAligned(a, b, BigShl(a.m, a.e - lo), BigShl(b.m, b.e - lo), lo)

NumAdd(a, b) ==
  IF IsNaN(a) \/ IsNaN(b) THEN NaN
  ELSE IF a.k = "Inf" /\ b.k = "Inf" THEN (IF a.s = b.s THEN a ELSE NaN)
  ELSE IF a.k = "Inf" THEN a
  ELSE IF b.k = "Inf" THEN b
  ELSE IF IsZero(a) THEN b
  ELSE IF IsZero(b) THEN a
  ELSE AddAt(a, b, IF a.e < b.e THEN a.e ELSE b.e)

\* a - b
NumSub(a, b) == NumAdd(a, Neg(b))

\* a * b
NumMul(a, b) ==
  IF IsNaN(a) \/ IsNaN(b) THEN NaN
  ELSE IF a.k = "Inf" \/ b.k = "Inf"
         THEN (IF IsZero(a) \/ IsZero(b) THEN NaN ELSE Infinity(a.s * b.s))
  ELSE IF IsZero(a) \/ IsZero(b) THEN Zero
  ELSE RoundToDouble(a.s * b.s, BigMul(a.m, b.m), a.e + b.e, FALSE)

\* a / b: the quotient of the magnitudes is developed to MantissaBits + 2
\* bits or more, the remainder is the sticky bit
\* qr: <<remainder, quotient>> of the magnitudes, a's shifted by sh bits
DivRounded(a, b, sh, qr) ==
  RoundToDouble(a.s * b.s, qr[2], a.e - b.e - sh, qr[1] # <<>>)

DivDeveloped(a, b, sh) ==
  DivRounded(a, b, sh,
             BigDivMod(IF sh > 0 THEN BigShl(a.m, sh) ELSE a.m,
                       IF sh < 0 THEN BigShl(b.m, -sh) ELSE b.m))

NumDiv(a, b) ==
  IF IsNaN(a) \/ IsNaN(b) THEN NaN
  ELSE IF a.k = "Inf" THEN (IF b.k = "Inf" THEN NaN ELSE Infinity(a.s * b.s))
  ELSE IF b.k = "Inf" THEN Zero
  ELSE IF IsZero(b) THEN (IF IsZero(a) THEN NaN ELSE Infinity(a.s * b.s))
  ELSE IF IsZero(a) THEN Zero
  ELSE DivDeveloped(a, b, MantissaBits + 2 + BigBitLen(b.m) - BigBitLen(a.m))

\* a % 2
RemTwo(a) ==
  IF a.k # "fin" THEN NaN
  ELSE IF a.e >= 1 \/ IsZero(a) THEN Zero
  ELSE RoundToDouble(a.s,
                     BigSub(a.m, BigShl(BigShr(a.m, 1 - a.e), 1 - a.e)),
                     a.e, FALSE)

\* Math.round(a): the nearest integer, a tie towards +Infinity
MathRound(a) ==
  IF a.k # "fin" \/ a.e >= 0 THEN a
  ELSE RoundToDouble(a.s,
                     IF /\ BigBit(a.m, -a.e - 1) = 1
                        /\ (a.s = 1 \/ BigLowNonZero(a.m, -a.e - 1))
                       THEN AddC(BigShr(a.m, -a.e), <<1>>, 0)
                       ELSE BigShr(a.m, -a.e),
                     0, FALSE)

\* Math.max(a, b)
MathMax(a, b) ==
  IF IsNaN(a) \/ IsNaN(b) THEN NaN
  ELSE IF NumCmp(a, b) < 0 THEN b ELSE a

\* Math.trunc(a), the integer part ToLength takes
MathTrunc(a) ==
  IF a.k # "fin" \/ a.e >= 0 THEN a
  ELSE RoundToDouble(a.s, BigShr(a.m, -a.e), 0, FALSE)

\* ------------------------------------------------------------------------
\* The zigzag path generator: the body of ReceiptCard from the read of
\* dimensions to the mask.  width and height are the numbers of the
\* measured offsetWidth and offsetHeight, toothSize and toothHeight the
\* props.  A coordinate token `${x},${y}` is the record [x, y] of its two
\* numbers: a template literal prints different numbers differently.
\* ------------------------------------------------------------------------
FallbackTeeth == 20

MinTeeth == 4

\* RawTeeth with a minimum of 8 teeth instead of 4
RawTeethMinEight(width, toothSize) ==
  IF NumGreater(width, Zero)
    THEN MathMax(FromInt(8), MathRound(NumDiv(width, toothSize)))
    ELSE FromInt(FallbackTeeth)

\* RawTeeth without the width > 0 test and its fallback
RawTeethNoFallback(width, toothSize) ==
  MathMax(FromInt(MinTeeth), MathRound(NumDiv(width, toothSize)))

\* RawTeeth that divides by the magnitude of toothSize
RawTeethAbsolute(width, toothSize) ==
  IF NumGreater(width, Zero)
    THEN MathMax(FromInt(MinTeeth),
                 MathRound(NumDiv(width,
                                  IF NumLess(toothSize, Zero)
                                    THEN Neg(toothSize) ELSE toothSize)))
    ELSE FromInt(FallbackTeeth)

\* const rawTeeth = width > 0 ? Math.max(4, Math.round(width / toothSize)) : 20
RawTeeth(width, toothSize) ==
  IF NumGreater(width, Zero)
    THEN MathMax(FromInt(MinTeeth), MathRound(NumDiv(width, toothSize)))
    ELSE FromInt(FallbackTeeth)

\* Teeth without the rounding up to an even count
TeethNoRounding(rawTeeth) == rawTeeth

\* Teeth that rounds an odd count down to the even count below
TeethRoundingDown(rawTeeth) ==
  IF StrictEq(RemTwo(rawTeeth), Zero) THEN rawTeeth
  ELSE NumSub(rawTeeth, FromInt(1))

\* const teeth = rawTeeth % 2 === 0 ? rawTeeth : rawTeeth + 1
Teeth(rawTeeth) ==
  IF StrictEq(RemTwo(rawTeeth), Zero) THEN rawTeeth
  ELSE NumAdd(rawTeeth, FromInt(1))

\* NumPoints without the closing sample
NumPointsEven(teeth) == NumMul(teeth, FromInt(2))

\* const numPoints = teeth * 2 + 1
NumPoints(teeth) == NumAdd(NumMul(teeth, FromInt(2)), FromInt(1))

\* const spacing = width / (numPoints - 1)
Spacing(width, numPoints) == NumDiv(width, NumSub(numPoints, FromInt(1)))

\* the largest length of an array, 2^32 - 1
MaxArrayLength == NumSub(Dyadic(1, 32), FromInt(1))

\* Array.from({ length: n }, ...): the length of the array, or -1 when the
\* array constructor throws RangeError (invalid array length)
ArrayLength(n) ==
  IF IsNaN(n) \/ ~NumGreater(n, Zero) THEN 0
  ELSE IF NumGreater(MathTrunc(n), MaxArrayLength) THEN -1
  ELSE ToInt(MathTrunc(n))

Token(x, y) == [x |-> x, y |-> y]

\* TopEdge that starts on a peak: odd samples are the valleys
TopEdgePeakFirst(len, spacing, toothHeight) ==
  [j \in 1..len |->
     Token(NumMul(FromInt(j - 1), spacing),
           IF (j - 1) % 2 = 0 THEN Zero ELSE toothHeight)]

\* valley(0) -> peak -> valley -> ... ; sample i is element i + 1
TopEdge(len, spacing, toothHeight) ==
  [j \in 1..len |->
     Token(NumMul(FromInt(j - 1), spacing),
           IF (j - 1) % 2 = 0 THEN toothHeight ELSE Zero)]

BottomEdge(len, width, height, spacing, toothHeight) ==
  [j \in 1..len |->
     Token(NumSub(width, NumMul(FromInt(j - 1), spacing)),
           IF (j - 1) % 2 = 0 THEN NumSub(height, toothHeight) ELSE height)]

\* Points without the bottom-right corner
PointsOpen(width, height, top, bottom) ==
  <<Token(Zero, Zero)>> \o top
    \o <<Token(width, Zero)>> \o bottom
    \o <<Token(Zero, height)>>

\* `0,0 ${top} ${width},0 ${width},${height} ${bottom} 0,${height}`
Points(width, height, top, bottom) ==
  <<Token(Zero, Zero)>> \o top
    \o <<Token(width, Zero), Token(width, height)>> \o bottom
    \o <<Token(Zero, height)>>

\* maskImage undefined: no mask, the children render unclipped
Undefined == [applied |-> FALSE, viewBox |-> <<>>, points |-> <<>>]

\* Mask with || for &&
MaskEither(width, height, points) ==
  IF NumGreater(width, Zero) \/ NumGreater(height, Zero)
    THEN [applied |-> TRUE, viewBox |-> <<width, height>>, points |-> points]
    ELSE Undefined

\* width > 0 && height > 0 ? url(... viewBox='0 0 w h' ... points=...) : undefined
Mask(width, height, points) ==
  IF NumGreater(width, Zero) /\ NumGreater(height, Zero)
    THEN [applied |-> TRUE, viewBox |-> <<width, height>>, points |-> points]
    ELSE Undefined

\* What a render commits: status "RangeError" when Array.from throws (then
\* nothing after it is computed).
Committed(dims, pr, width, height, teeth, numPoints, spacing, len, points) ==
  [status    |-> IF len < 0 THEN "RangeError" ELSE "ok",
   dims      |-> dims,
   props     |-> pr,
   teeth     |-> teeth,
   numPoints |-> numPoints,
   spacing   |-> spacing,
   points    |-> IF len < 0 THEN <<>> ELSE points,
   mask      |-> IF len < 0 THEN Undefined ELSE Mask(width, height, points)]

\* const top, const bottom, const points, const mask
WithSpacing(dims, pr, width, height, teeth, numPoints, spacing, len) ==
  Committed(dims, pr, width, height, teeth, numPoints, spacing, len,
            Points(width, height,
                   TopEdge(len, spacing, pr.toothHeight),
                   BottomEdge(len, width, height, spacing, pr.toothHeight)))

\* const spacing
WithNumPoints(dims, pr, width, height, teeth, numPoints) ==
  WithSpacing(dims, pr, width, height, teeth, numPoints,
              Spacing(width, numPoints), ArrayLength(numPoints))

\* const numPoints
WithTeeth(dims, pr, width, height, teeth) ==
  WithNumPoints(dims, pr, width, height, teeth, NumPoints(teeth))

\* const rawTeeth, const teeth
WithDimensions(dims, pr, width, height) ==
  WithTeeth(dims, pr, width, height, Teeth(RawTeeth(width, pr.toothSize)))

\* One evaluation of the component body on the dimensions state and the
\* props, statement by statement: const { width, height } = dimensions
ComponentBody(dims, pr) ==
  WithDimensions(dims, pr, FromInt(dims.width), FromInt(dims.height))

\* ------------------------------------------------------------------------
\* The component instances and the browser around them.
\* ------------------------------------------------------------------------
VARIABLES
  phase,       \* per card: "none" (no instance), "rendered" (first render
               \* committed, mount effect pending), "mounted" (effect ran),
               \* "detached" (removed from the tree, effect cleanup pending)
  props,       \* per card: [toothSize, toothHeight]
  ref,         \* per card: ref.current is the container element
  container,   \* per card: offsetWidth / offsetHeight of the container now
  dimensions,  \* per card: the dimensions state
  dirty,       \* per card: a state update waits for its render
  view,        \* per card: what the last render computed and committed
  listeners,   \* the window's "resize" listeners, in registration order
  measured,    \* per card: number of measurements update() has taken
  computed,    \* per card: number of renders (path computations)
  items,         \* manual receipt form: the values of the "items" array
  total_amount,  \* manual receipt form: the value of "total_amount"
  tax_amount,    \* manual receipt form: the value of "tax_amount"
  textValue,     \* per item: textValue of its quantity and price fields
  expanded,      \* ReceiptItems: the item rows are shown
  field,         \* a DecimalFormField alone: last input, textValue, value
  viewMode,      \* receipts page: "list" or "grid"
  query,         \* receipts page: the query of the receipts fetch
  inputValue,    \* receipts page: the text in the search bar
  loggedIn,      \* what isLoggedIn() returns
  location,      \* router: the URL asked for and the route that is shown
  search,        \* router: the validated search of the shown route
  editMode,      \* change-email form: the editMode state
  email,         \* change-email form: the value of the "email" field
  currentUser,   \* the email of the user useAuth() returns
  mutation,      \* change-email form: the update request in flight
  requests       \* the update requests sent to the server, in order

cardVars == <<phase, props, ref, container, dimensions, dirty, view,
              listeners, measured, computed>>

formVars ==
  <<items, total_amount, tax_amount, textValue, expanded, field>>

searchVars == <<viewMode, query, inputValue>>

routeVars == <<loggedIn, location, search>>

emailVars == <<editMode, email, currentUser, mutation, requests>>

vars == <<cardVars, formVars, searchVars, routeVars, emailVars>>

Cards == {"a", "b"}

\* the most measurements and the most renders followed per instance
MaxMeasured == 2

MaxComputed == 3

\* container sizes of the pure-generator specification: all of
\* 0..MaxWidth x 0..MaxHeight, and the sizes the specification names
MaxWidth == 24

MaxHeight == 1

Range(q) == {q[i] : i \in DOMAIN q}

Size(w, h) == [width |-> w, height |-> h]

Unmeasured == Size(0, 0)

Props(ts, th) == [toothSize |-> ts, toothHeight |-> th]

\* No caller passes toothSize or toothHeight, every instance has the
\* defaults of its definition: card "a" is a ReceiptCard of
\* Common/ReceiptCard.tsx (toothSize = 10, toothHeight = 3), card "b" one of
\* Sidebar/User.tsx (toothSize = 18, toothHeight = 5).
DefaultProps ==
  [c \in Cards |->
     IF c = "a" THEN Props(FromInt(10), FromInt(3))
     ELSE Props(FromInt(18), FromInt(5))]

LifeSizes == {Size(200, 50), Size(400, 50)}

GenSizes ==
  {Size(w, h) : w \in 0..MaxWidth, h \in 0..MaxHeight}
    \cup {Size(200, 50), Size(400, 50), Size(211, 50), Size(0, 50)}

\* 1, 5/2, 10, 18, the tiny 2^-40 and 2^-1074 (the smallest number), and
\* the unguarded 0, -10 and -2^-1074
GenToothSizes ==
  {FromInt(1), Dyadic(5, -1), FromInt(10), FromInt(18),
   Dyadic(1, -40), Dyadic(1, MinExponent), Zero, FromInt(-10),
   Neg(Dyadic(1, MinExponent))}

GenProps ==
  {Props(ts, FromInt(3)) : ts \in GenToothSizes} \cup Range(DefaultProps)

\* The component body is a function of the dimensions state and the props
\* alone; it is tabulated once over the sizes and props of both
\* specifications.
Rendering ==
  [dims \in GenSizes \cup LifeSizes \cup {Unmeasured},
   pr \in GenProps |-> ComponentBody(dims, pr)]

Generate(dims, pr) == Rendering[dims, pr]

NoView ==
  [status |-> "none", dims |-> Unmeasured,
   props |-> DefaultProps["a"],
   teeth |-> Zero, numPoints |-> Zero, spacing |-> Zero,
   points |-> <<>>, mask |-> Undefined]

RECURSIVE Remove(_, _)
Remove(q, c) ==
  IF q = <<>> THEN <<>>
  ELSE IF Head(q) = c THEN Tail(q)
  ELSE <<Head(q)>> \o Remove(Tail(q), c)

\* A form value that is undefined
NoValue == [k |-> "undefined", s |-> 1, m |-> <<>>, e |-> 0]

\* A textValue state: undefined, or the text (a sequence of characters)
NoText == [defined |-> FALSE, text |-> <<>>]

TextOf(t) == [defined |-> TRUE, text |-> t]

Item(quantity, price, total_price) ==
  [quantity |-> quantity, price |-> price, total_price |-> total_price]

\* useForm's defaultValues of the manual receipt form, ReceiptItems'
\* useState(true), and no field typed into yet
InitForm ==
  /\ items = <<Item(Zero, Zero, Zero)>>
  /\ total_amount = Zero
  /\ tax_amount = Zero
  /\ textValue = <<[quantity |-> NoText, price |-> NoText]>>
  /\ expanded = TRUE
  /\ field = [typed |-> NoText, textValue |-> NoText, value |-> Zero]

\* The receipts page as its useState calls create it
InitSearch ==
  /\ viewMode = "list"
  /\ query = <<>>
  /\ inputValue = <<>>

\* Nobody is logged in and no route is shown yet
InitRoute ==
  /\ loggedIn = FALSE
  /\ location = [href |-> <<"none", [type |-> "undefined", value |-> <<>>]>>,
                 redirects |-> <<>>, pathname |-> "none"]
  /\ search = [token |-> <<>>]

\* The change-email form shows the user's email, is not in edit mode and
\* has sent nothing
InitEmail ==
  /\ editMode = FALSE
  /\ currentUser = "a@x"
  /\ email = "a@x"
  /\ mutation = [status |-> "idle", email |-> ""]
  /\ requests = <<>>

\* No receipt card exists
Unmounted ==
  /\ phase = [c \in Cards |-> "none"]
  /\ props = DefaultProps
  /\ ref = [c \in Cards |-> FALSE]
  /\ container = [c \in Cards |-> Unmeasured]
  /\ dimensions = [c \in Cards |-> Unmeasured]
  /\ dirty = [c \in Cards |-> FALSE]
  /\ view = [c \in Cards |-> NoView]
  /\ listeners = <<>>
  /\ measured = [c \in Cards |-> 0]
  /\ computed = [c \in Cards |-> 0]

\* Nothing is in use yet
Init == Unmounted /\ InitForm /\ InitSearch /\ InitRoute /\ InitEmail

\* The render of card c with props pr that computed v is committed.  A
\* render that throws has no error boundary above it: React removes the
\* tree, the ref is detached and the effect cleanup is still to run.
Commits(c, pr, v) ==
  /\ view' = [view EXCEPT ![c] = v]
  /\ props' = [props EXCEPT ![c] = pr]
  /\ dirty' = [dirty EXCEPT ![c] = FALSE]
  /\ computed' = [computed EXCEPT ![c] = @ + 1]
  /\ IF v.status = "ok"
       THEN /\ ref' = [ref EXCEPT ![c] = TRUE]
            /\ phase' = [phase EXCEPT ![c] =
                           IF @ = "none" THEN "rendered" ELSE @]
       ELSE /\ ref' = [ref EXCEPT ![c] = FALSE]
            /\ phase' = [phase EXCEPT ![c] = "detached"]

\* Commit with the mask memoized without dependencies: once a mask is
\* applied, later renders keep it
CommitStaleMask(c, dims, pr) ==
  Commits(c, pr,
          IF view[c].mask.applied /\ Generate(dims, pr).status = "ok"
            THEN [Generate(dims, pr) EXCEPT !.mask = view[c].mask]
            ELSE Generate(dims, pr))

\* Commit with the point array hoisted out of the component: every render
\* appends its points to those of the renders before
CommitAccumulating(c, dims, pr) ==
  Commits(c, pr,
          IF Generate(dims, pr).status = "ok"
            THEN [Generate(dims, pr) EXCEPT
                    !.points = view[c].points \o Generate(dims, pr).points]
            ELSE Generate(dims, pr))

\* A render of card c on the dimensions dims with props pr
Commit(c, dims, pr) == Commits(c, pr, Generate(dims, pr))

\* Create with the dimensions state kept outside the instance: a card that
\* is created again starts with the dimensions of its previous life
CreateKeepingDimensions(c, size) ==
  /\ phase[c] = "none"
  /\ measured' = [measured EXCEPT ![c] = 0]
  /\ Commit(c, dimensions[c], DefaultProps[c])
  /\ container' = [container EXCEPT ![c] = size]
  /\ UNCHANGED <<dimensions, listeners>>
  /\ UNCHANGED <<formVars, searchVars, routeVars, emailVars>>

\* A parent renders <ReceiptCard>: useState({ width: 0, height: 0 }), the
\* first render, the container laid out with some size.
Create(c, size) ==
  /\ phase[c] = "none"
  /\ dimensions' = [dimensions EXCEPT ![c] = Unmeasured]
  /\ measured' = [measured EXCEPT ![c] = 0]
  /\ Commit(c, Unmeasured, DefaultProps[c])
  /\ container' = [container EXCEPT ![c] = size]
  /\ UNCHANGED listeners
  /\ UNCHANGED <<formVars, searchVars, routeVars, emailVars>>

\* update() that stores the measured width and keeps the height of the
\* previous state
UpdateWidthOnly(c) ==
  IF ref[c]
    THEN /\ dimensions' = [dimensions EXCEPT
                             ![c] = Size(container[c].width, @.height)]
         /\ dirty' = [dirty EXCEPT ![c] = TRUE]
         /\ measured' = [measured EXCEPT ![c] = @ + 1]
    ELSE UNCHANGED <<dimensions, dirty, measured>>

\* update(): if (ref.current) setDimensions({offsetWidth, offsetHeight})
Update(c) ==
  IF ref[c]
    THEN /\ dimensions' = [dimensions EXCEPT ![c] = container[c]]
         /\ dirty' = [dirty EXCEPT ![c] = TRUE]
         /\ measured' = [measured EXCEPT ![c] = @ + 1]
    ELSE UNCHANGED <<dimensions, dirty, measured>>

\* The mount effect: update(); window.addEventListener("resize", update)
Effect(c) ==
  /\ phase[c] = "rendered"
  /\ measured[c] < MaxMeasured
  /\ Update(c)
  /\ listeners' = Append(listeners, c)
  /\ phase' = [phase EXCEPT ![c] = "mounted"]
  /\ UNCHANGED <<props, ref, container, view, computed>>
  /\ UNCHANGED <<formVars, searchVars, routeVars, emailVars>>

\* WindowResize with one shared measurement: every registered card stores
\* the size of the container of the first registered one
WindowResizeShared ==
  /\ listeners # <<>>
  /\ \A c \in Range(listeners) : ref[c] => measured[c] < MaxMeasured
  /\ dimensions' = [c \in Cards |->
                      IF c \in Range(listeners) /\ ref[c]
                        THEN container[Head(listeners)] ELSE dimensions[c]]
  /\ dirty' = [c \in Cards |->
                 IF c \in Range(listeners) /\ ref[c] THEN TRUE ELSE dirty[c]]
  /\ measured' = [c \in Cards |->
                    IF c \in Range(listeners) /\ ref[c]
                      THEN measured[c] + 1 ELSE measured[c]]
  /\ UNCHANGED <<phase, props, ref, container, view, listeners, computed>>
  /\ UNCHANGED <<formVars, searchVars, routeVars, emailVars>>

\* WindowResize with coalescing: a signal that finds a state update still
\* waiting for its render is dropped for that card
WindowResizeCoalesced ==
  /\ listeners # <<>>
  /\ \A c \in Range(listeners) : ref[c] => measured[c] < MaxMeasured
  /\ dimensions' = [c \in Cards |->
                      IF c \in Range(listeners) /\ ref[c] /\ ~dirty[c]
                        THEN container[c] ELSE dimensions[c]]
  /\ dirty' = [c \in Cards |->
                 IF c \in Range(listeners) /\ ref[c] THEN TRUE ELSE dirty[c]]
  /\ measured' = [c \in Cards |->
                    IF c \in Range(listeners) /\ ref[c] /\ ~dirty[c]
                      THEN measured[c] + 1 ELSE measured[c]]
  /\ UNCHANGED <<phase, props, ref, container, view, listeners, computed>>
  /\ UNCHANGED <<formVars, searchVars, routeVars, emailVars>>

\* WindowResize whose update() does not test ref.current: every registered
\* listener stores the last known size of its container
WindowResizeUnguarded ==
  /\ listeners # <<>>
  /\ \A c \in Range(listeners) : measured[c] < MaxMeasured
  /\ dimensions' = [c \in Cards |->
                      IF c \in Range(listeners)
                        THEN container[c] ELSE dimensions[c]]
  /\ dirty' = [c \in Cards |->
                 IF c \in Range(listeners) THEN TRUE ELSE dirty[c]]
  /\ measured' = [c \in Cards |->
                    IF c \in Range(listeners)
                      THEN measured[c] + 1 ELSE measured[c]]
  /\ UNCHANGED <<phase, props, ref, container, view, listeners, computed>>
  /\ UNCHANGED <<formVars, searchVars, routeVars, emailVars>>

\* The window dispatches "resize": every registered update() runs.
WindowResize ==
  /\ listeners # <<>>
  /\ \A c \in Range(listeners) : ref[c] => measured[c] < MaxMeasured
  /\ dimensions' = [c \in Cards |->
                      IF c \in Range(listeners) /\ ref[c]
                        THEN container[c] ELSE dimensions[c]]
  /\ dirty' = [c \in Cards |->
                 IF c \in Range(listeners) /\ ref[c] THEN TRUE ELSE dirty[c]]
  /\ measured' = [c \in Cards |->
                    IF c \in Range(listeners) /\ ref[c]
                      THEN measured[c] + 1 ELSE measured[c]]
  /\ UNCHANGED <<phase, props, ref, container, view, listeners, computed>>
  /\ UNCHANGED <<formVars, searchVars, routeVars, emailVars>>

\* The layout gives the container another size (window, sidebar, content).
Layout(c, size) ==
  /\ ref[c]
  /\ container[c] # size
  /\ container' = [container EXCEPT ![c] = size]
  /\ UNCHANGED <<phase, props, ref, dimensions, dirty, view, listeners,
                 measured, computed>>
  /\ UNCHANGED <<formVars, searchVars, routeVars, emailVars>>

\* React renders the card again for its pending state update.
Render(c) ==
  /\ phase[c] \in {"rendered", "mounted"}
  /\ dirty[c]
  /\ computed[c] < MaxComputed
  /\ Commit(c, dimensions[c], props[c])
  /\ UNCHANGED <<container, dimensions, listeners, measured>>
  /\ UNCHANGED <<formVars, searchVars, routeVars, emailVars>>

\* The parent renders the card again (same props, other children).
Rerender(c) ==
  /\ phase[c] \in {"rendered", "mounted"}
  /\ computed[c] < MaxComputed
  /\ Commit(c, dimensions[c], props[c])
  /\ UNCHANGED <<container, dimensions, listeners, measured>>
  /\ UNCHANGED <<formVars, searchVars, routeVars, emailVars>>

\* The card leaves the tree: React detaches the ref in the commit; the
\* effect cleanup runs after it.
Detach(c) ==
  /\ phase[c] = "mounted"
  /\ phase' = [phase EXCEPT ![c] = "detached"]
  /\ ref' = [ref EXCEPT ![c] = FALSE]
  /\ UNCHANGED <<props, container, dimensions, dirty, view, listeners,
                 measured, computed>>
  /\ UNCHANGED <<formVars, searchVars, routeVars, emailVars>>

\* Cleanup that leaves the listener on the window
CleanupLeak(c) ==
  /\ phase[c] = "detached"
  /\ phase' = [phase EXCEPT ![c] = "none"]
  /\ props' = [props EXCEPT ![c] = DefaultProps[c]]
  /\ container' = [container EXCEPT ![c] = Unmeasured]
  /\ dirty' = [dirty EXCEPT ![c] = FALSE]
  /\ view' = [view EXCEPT ![c] = NoView]
  /\ computed' = [computed EXCEPT ![c] = 0]
  /\ UNCHANGED <<ref, dimensions, measured, listeners>>
  /\ UNCHANGED <<formVars, searchVars, routeVars, emailVars>>

\* The effect cleanup: window.removeEventListener("resize", update).  The
\* instance is gone: nothing of it is on screen; its last dimensions state
\* and its count of measurements stay recorded until the card is created
\* again.
Cleanup(c) ==
  /\ phase[c] = "detached"
  /\ listeners' = Remove(listeners, c)
  /\ phase' = [phase EXCEPT ![c] = "none"]
  /\ props' = [props EXCEPT ![c] = DefaultProps[c]]
  /\ container' = [container EXCEPT ![c] = Unmeasured]
  /\ dirty' = [dirty EXCEPT ![c] = FALSE]
  /\ view' = [view EXCEPT ![c] = NoView]
  /\ computed' = [computed EXCEPT ![c] = 0]
  /\ UNCHANGED <<ref, dimensions, measured>>
  /\ UNCHANGED <<formVars, searchVars, routeVars, emailVars>>

Next ==
  \/ \E c \in Cards, size \in LifeSizes : Create(c, size)
  \/ \E c \in Cards : Effect(c)
  \/ WindowResize
  \/ \E c \in Cards, size \in LifeSizes : Layout(c, size)
  \/ \E c \in Cards : Render(c)
  \/ \E c \in Cards : Rerender(c)
  \/ \E c \in Cards : Detach(c)
  \/ \E c \in Cards : Cleanup(c)

Spec == Init /\ [][Next]_vars

\* The generator alone: card "a" is mounted, has measured a container of
\* any size of GenSizes with any props of GenProps, and renders.
InitGen ==
  \E pr \in GenProps, size \in GenSizes :
    /\ phase = [c \in Cards |-> IF c = "a" THEN "mounted" ELSE "none"]
    /\ props = [DefaultProps EXCEPT !["a"] = pr]
    /\ ref = [c \in Cards |-> c = "a"]
    /\ container = [c \in Cards |-> IF c = "a" THEN size ELSE Unmeasured]
    /\ dimensions = [c \in Cards |-> IF c = "a" THEN size ELSE Unmeasured]
    /\ dirty = [c \in Cards |-> c = "a"]
    /\ view = [c \in Cards |->
                 IF c = "a" THEN Generate(Unmeasured, pr) ELSE NoView]
    /\ listeners = <<"a">>
    /\ measured = [c \in Cards |-> IF c = "a" THEN 1 ELSE 0]
    /\ computed = [c \in Cards |-> IF c = "a" THEN 1 ELSE 0]
    /\ InitForm /\ InitSearch /\ InitRoute /\ InitEmail

NextGen == \E c \in Cards : Render(c)

SpecGen == InitGen /\ [][NextGen]_vars

\* The props a parent passes when it renders a card again with other
\* toothSize / toothHeight: those of the two definitions.
GivenProps == Range(DefaultProps)

\* RenderWith whose points and mask are memoized on the dimensions alone: a
\* render on unchanged dimensions keeps those of the render before
RenderWithMemo(c, pr) ==
  /\ phase[c] \in {"rendered", "mounted"}
  /\ computed[c] < MaxComputed
  /\ pr # props[c]
  /\ Commits(c, pr,
             IF view[c].dims = dimensions[c]
               THEN [Generate(dimensions[c], pr) EXCEPT
                       !.points = view[c].points, !.mask = view[c].mask]
               ELSE Generate(dimensions[c], pr))
  /\ UNCHANGED <<container, dimensions, listeners, measured>>
  /\ UNCHANGED <<formVars, searchVars, routeVars, emailVars>>

\* RenderWith that resets the dimensions state, as a render keyed by the
\* tooth parameters would
RenderWithReset(c, pr) ==
  /\ phase[c] \in {"rendered", "mounted"}
  /\ computed[c] < MaxComputed
  /\ pr # props[c]
  /\ Commit(c, Unmeasured, pr)
  /\ dimensions' = [dimensions EXCEPT ![c] = Unmeasured]
  /\ UNCHANGED <<container, listeners, measured>>
  /\ UNCHANGED <<formVars, searchVars, routeVars, emailVars>>

\* The parent renders the card again with other toothSize / toothHeight
\* (className, hoverShadow and children are not read by the generator: a
\* change of those is Rerender).
RenderWith(c, pr) ==
  /\ phase[c] \in {"rendered", "mounted"}
  /\ computed[c] < MaxComputed
  /\ pr # props[c]
  /\ Commit(c, dimensions[c], pr)
  /\ UNCHANGED <<container, dimensions, listeners, measured>>
  /\ UNCHANGED <<formVars, searchVars, routeVars, emailVars>>

\* The lifecycle of card "a" with a parent that renders it again, also
\* with other tooth parameters, while card "b" is created, mounted,
\* resized, rendered and unmounted beside it.
NextProps ==
  \/ \E c \in Cards, size \in LifeSizes : Create(c, size)
  \/ \E c \in Cards : Effect(c)
  \/ WindowResize
  \/ \E size \in LifeSizes : Layout("a", size)
  \/ \E c \in Cards : Render(c)
  \/ Rerender("a")
  \/ \E pr \in GivenProps : RenderWith("a", pr)
  \/ \E c \in Cards : Detach(c)
  \/ \E c \in Cards : Cleanup(c)

SpecProps == Init /\ [][NextProps]_vars

\* What React's scheduling guarantees a card: the mount effect runs after
\* the first commit, a pending state update gets its render, the effect
\* cleanup runs after the instance left the tree.  Neither the window nor
\* the layout owes the card an event.
Scheduling ==
  \A c \in Cards :
    WF_vars(Effect(c)) /\ WF_vars(Render(c)) /\ WF_vars(Cleanup(c))

SpecLive == Init /\ [][Next]_vars /\ Scheduling

\* ------------------------------------------------------------------------
\* DecimalFormField (components/Forms/DecimalFormField.tsx) and the items
\* of the manual receipt form (ManualEntry/Categories/ReceiptItems.tsx).
\* A text is a sequence of characters.  The form values live in
\* react-hook-form, which is not part of the sources: field.onChange,
\* setValue, append and remove are taken to store the value at once, so
\* that the getValues call that follows reads it.
\* ------------------------------------------------------------------------
\* the longest text typed into the field alone
MaxText == 2

\* the most items the form is followed with
MaxItems == 2

\* the texts of the characters typed: two digits, the dot and one that
\* is neither
Texts == UNION {[1..n -> {"0", "5", ".", "-"}] : n \in 0..MaxText}

\* \d
IsDigit(ch) == ch \in {"0", "1", "2", "3", "4", "5", "6", "7", "8", "9"}

\* Accepted with the dot required to be followed by a digit
AcceptedDigitAfterDot(t) ==
  \E k \in 0..Len(t) :
    /\ \A i \in 1..k : IsDigit(t[i])
    /\ \/ k = Len(t)
       \/ /\ t[k + 1] = "."
          /\ k + 1 < Len(t)
          /\ \A i \in (k + 2)..Len(t) : IsDigit(t[i])

\* /^\d*\.?\d*$/.test(value): digits, then at most one dot, then digits
Accepted(t) ==
  \E k \in 0..Len(t) :
    /\ \A i \in 1..k : IsDigit(t[i])
    /\ \/ k = Len(t)
       \/ /\ t[k + 1] = "."
          /\ \A i \in (k + 2)..Len(t) : IsDigit(t[i])

DigitOf(ch) ==
  CASE ch = "0" -> 0 [] ch = "1" -> 1 [] ch = "2" -> 2 [] ch = "3" -> 3
    [] ch = "4" -> 4 [] ch = "5" -> 5 [] ch = "6" -> 6 [] ch = "7" -> 7
    [] ch = "8" -> 8 [] ch = "9" -> 9

\* the digits of an accepted text read as one natural, the dot skipped
RECURSIVE Mantissa(_)
Mantissa(t) ==
  IF t = <<>> THEN 0
  ELSE IF t[Len(t)] = "." THEN Mantissa(SubSeq(t, 1, Len(t) - 1))
  ELSE 10 * Mantissa(SubSeq(t, 1, Len(t) - 1)) + DigitOf(t[Len(t)])

\* the number of digits after the dot
Decimals(t) ==
  IF \E i \in 1..Len(t) : t[i] = "."
    THEN Len(t) - (CHOOSE i \in 1..Len(t) : t[i] = ".")
    ELSE 0

\* Number(value) of an accepted text: the double nearest to the decimal
\* it spells (the digits over a power of ten, one correctly rounded
\* division of two exact integers); Number("") is 0, Number(".") is NaN
Number(t) ==
  IF t = <<>> THEN Zero
  ELSE IF t = <<".">> THEN NaN
  ELSE NumDiv(FromInt(Mantissa(t)), FromInt(10 ^ Decimals(t)))

\* the texts typed into the form: the cleared field, .25 and a rejected
\* text
Keyed == {<<>>, <<".", "2", "5">>, <<"-", "5">>}

\* Number(value), tabulated once over the accepted texts that are typed
\* (f @@ <<>> is f, held as an explicit table)
Numbers ==
  [t \in {k \in Texts \cup Keyed : Accepted(k)} |-> Number(t)] @@ <<>>

\* DecimalFormField's onChange gets the input's new text t: whether it
\* passes a value on to field.onChange and to the onChange prop
Passes(t) ==
  /\ Accepted(t)
  /\ t = <<>> \/ t = <<".">> \/ ~IsNaN(Numbers[t])

\* the value it passes on
Passed(t) == IF t = <<>> \/ t = <<".">> THEN NoValue ELSE Numbers[t]

\* the textValue state after it: setTextValue(value) unless rejected
TextAfter(old, t) == IF Accepted(t) THEN TextOf(t) ELSE old

\* the form value after it
ValueAfter(old, t) == IF Passes(t) THEN Passed(t) ELSE old

\* A DecimalFormField alone: the input gets the text t
Typed(t) ==
  /\ field' = [typed |-> TextOf(t),
               textValue |-> TextAfter(field.textValue, t),
               value |-> ValueAfter(field.value, t)]
  /\ UNCHANGED <<items, total_amount, tax_amount, textValue, expanded>>
  /\ UNCHANGED <<cardVars, searchVars, routeVars, emailVars>>

\* a || b of JavaScript on a number or undefined
Or(a, b) == IF a = NoValue \/ IsNaN(a) \/ IsZero(a) THEN b ELSE a

\* Math.round(x * 100) / 100
RoundTwo(x) == NumDiv(MathRound(NumMul(x, FromInt(100))), FromInt(100))

\* the numbers a quantity or a price of the form can be: the defaults 0
\* and 1 and what the typed texts pass on
Amounts ==
  {Zero, FromInt(1)} \cup ({Passed(t) : t \in {k \in Keyed : Passes(k)}}
                             \ {NoValue})

\* Math.round(a * b * 100) / 100, tabulated once over those numbers
Products ==
  [a \in Amounts, b \in Amounts |-> RoundTwo(NumMul(a, b))] @@ <<>>

\* the total_price values of the items, in order
PricesOf(its) == [i \in DOMAIN its |-> its[i].total_price]

\* items.reduce((sum, item) => sum + (item.total_price || 0), 0) on the
\* total_price values ps
RECURSIVE Sum(_)
Sum(ps) ==
  IF ps = <<>> THEN Zero
  ELSE NumAdd(Sum(SubSeq(ps, 1, Len(ps) - 1)), Or(ps[Len(ps)], Zero))

\* calculateTotal's total, tabulated once over the item lists of the form
Totals ==
  [ps \in UNION {[1..n -> {Products[a, b] : a \in Amounts, b \in Amounts}] :
                   n \in 0..MaxItems} |->
     RoundTwo(Sum(ps))] @@ <<>>

Total(its) == Totals[PricesOf(its)]

\* Math.round((total - total / 1.17) * 100) / 100, tabulated once over
\* those totals
Taxes ==
  [total \in {Totals[ps] : ps \in DOMAIN Totals} |->
     RoundTwo(NumSub(total,
                     NumDiv(total, Number(<<"1", ".", "1", "7">>))))] @@ <<>>

Pdv(total) == Taxes[total]

\* calculateTotal() on the form values its
calculateTotal(its) ==
  /\ items' = its
  /\ total_amount' = Total(its)
  /\ tax_amount' = Pdv(Total(its))

\* field.onChange(quantity), then the quantity handler's setValue of
\* total_price: Math.round(Number(price || 0) * (quantity || 0) * 100) / 100
AfterQuantity(its, i, quantity) ==
  [its EXCEPT ![i] =
     Item(quantity, @.price,
          Products[Or(@.price, Zero), Or(quantity, Zero)])]

\* field.onChange(price), then the price handler's setValue of
\* total_price: Math.round((price || 0) * (quantity || 1) * 100) / 100
AfterPrice(its, i, price) ==
  [its EXCEPT ![i] =
     Item(@.quantity, price,
          Products[Or(price, Zero), Or(@.quantity, FromInt(1))])]

\* The quantity input of item i gets the text t.
QuantityTyped(i, t) ==
  /\ expanded
  /\ i \in DOMAIN items
  /\ textValue' = [textValue EXCEPT ![i].quantity = TextAfter(@, t)]
  /\ IF Passes(t)
       THEN calculateTotal(AfterQuantity(items, i, Passed(t)))
       ELSE UNCHANGED <<items, total_amount, tax_amount>>
  /\ UNCHANGED <<expanded, field>>
  /\ UNCHANGED <<cardVars, searchVars, routeVars, emailVars>>

\* The price input of item i gets the text t.
PriceTyped(i, t) ==
  /\ expanded
  /\ i \in DOMAIN items
  /\ textValue' = [textValue EXCEPT ![i].price = TextAfter(@, t)]
  /\ IF Passes(t)
       THEN calculateTotal(AfterPrice(items, i, Passed(t)))
       ELSE UNCHANGED <<items, total_amount, tax_amount>>
  /\ UNCHANGED <<expanded, field>>
  /\ UNCHANGED <<cardVars, searchVars, routeVars, emailVars>>

\* "Dodaj artikal": append({ quantity: 1, price: 0, total_price: 0 })
AppendItem ==
  /\ expanded
  /\ Len(items) < MaxItems
  /\ items' = Append(items, Item(FromInt(1), Zero, Zero))
  /\ textValue' = Append(textValue, [quantity |-> NoText, price |-> NoText])
  /\ UNCHANGED <<total_amount, tax_amount, expanded, field>>
  /\ UNCHANGED <<cardVars, searchVars, routeVars, emailVars>>

Without(q, i) == SubSeq(q, 1, i - 1) \o SubSeq(q, i + 1, Len(q))

\* The remove button of item i without the calculateTotal() after it
RemoveItemOnly(i) ==
  /\ expanded
  /\ Len(items) > 1
  /\ i \in DOMAIN items
  /\ items' = Without(items, i)
  /\ textValue' = Without(textValue, i)
  /\ UNCHANGED <<total_amount, tax_amount, expanded, field>>
  /\ UNCHANGED <<cardVars, searchVars, routeVars, emailVars>>

\* The remove button of item i, shown when there is more than one item:
\* remove(index); calculateTotal()
RemoveItem(i) ==
  /\ expanded
  /\ Len(items) > 1
  /\ i \in DOMAIN items
  /\ calculateTotal(Without(items, i))
  /\ textValue' = Without(textValue, i)
  /\ UNCHANGED <<expanded, field>>
  /\ UNCHANGED <<cardVars, searchVars, routeVars, emailVars>>

\* The "Artikli" button: setExpanded(!expanded).  Collapsed, the rows and
\* the append button are not rendered; the fields unmount and lose their
\* textValue states, the form values stay.
Toggle ==
  /\ expanded' = ~expanded
  /\ textValue' = IF expanded
                    THEN [i \in DOMAIN textValue |->
                            [quantity |-> NoText, price |-> NoText]]
                    ELSE textValue
  /\ UNCHANGED <<items, total_amount, tax_amount, field>>
  /\ UNCHANGED <<cardVars, searchVars, routeVars, emailVars>>

NextForm ==
  \/ \E i \in 1..MaxItems, t \in Keyed : QuantityTyped(i, t)
  \/ \E i \in 1..MaxItems, t \in Keyed : PriceTyped(i, t)
  \/ AppendItem
  \/ \E i \in 1..MaxItems : RemoveItem(i)
  \/ Toggle

SpecForm == Init /\ [][NextForm]_vars

NextField == \E t \in Texts : Typed(t)

SpecField == Init /\ [][NextField]_vars

\* ------------------------------------------------------------------------
\* The receipts page (features/receipts/index.tsx) with its SearchBar
\* (components/Common/SearchBar.tsx).  A search text is a text of Texts.
\* ------------------------------------------------------------------------
\* getReceiptsWithQuery(query).queryKey: the key of the receipts fetch
queryKey == <<"receipts-me-search", query>>

\* SearchBar's onChange with typing that commits at once: the query
\* follows every change of the input
setInputValueLive(t) ==
  /\ inputValue' = t
  /\ query' = t
  /\ UNCHANGED viewMode
  /\ UNCHANGED <<cardVars, formVars, routeVars, emailVars>>

\* SearchBar's onChange: setSearchQuery(e.target.value), which is
\* setInputValue
setInputValue(t) ==
  /\ inputValue' = t
  /\ UNCHANGED <<query, viewMode>>
  /\ UNCHANGED <<cardVars, formVars, routeVars, emailVars>>

\* handleKeyDown: if (e.key === "Enter") setQuery(inputValue)
handleKeyDown(key) ==
  /\ query' = IF key = "Enter" THEN inputValue ELSE query
  /\ UNCHANGED <<inputValue, viewMode>>
  /\ UNCHANGED <<cardVars, formVars, routeVars, emailVars>>

\* The search button: setQuery(inputValue)
SearchClicked ==
  /\ query' = inputValue
  /\ UNCHANGED <<inputValue, viewMode>>
  /\ UNCHANGED <<cardVars, formVars, routeVars, emailVars>>

\* The list and grid buttons: setViewMode("list"), setViewMode("grid")
setViewMode(mode) ==
  /\ viewMode' = mode
  /\ UNCHANGED <<query, inputValue>>
  /\ UNCHANGED <<cardVars, formVars, routeVars, emailVars>>

NextSearch ==
  \/ \E t \in Texts : setInputValue(t)
  \/ \E key \in {"Enter", "Escape", "5"} : handleKeyDown(key)
  \/ SearchClicked
  \/ \E mode \in {"list", "grid"} : setViewMode(mode)

SpecSearch == Init /\ [][NextSearch]_vars

\* ------------------------------------------------------------------------
\* The route guards of /login (routes/login.tsx), /recover-password and
\* /reset-password.  isLoggedIn() of hooks/useAuth is not part of the
\* sources: it is a boolean of the environment, which a login or a logout
\* changes.  Every other route is "/" here, entered unguarded.
\* ------------------------------------------------------------------------
Routes == {"/", "/login", "/recover-password", "/reset-password"}

\* the token parameter of a requested URL: absent, a number (the router
\* parses ?token=5 as the number 5) or a text
RawTokens ==
  {[type |-> "string", value |-> t] : t \in Texts}
    \cup {[type |-> "undefined", value |-> <<>>],
          [type |-> "number", value |-> <<"5">>]}

\* searchSchema: z.object({ token: z.string().catch("") })
validateSearch(raw) ==
  [token |-> IF raw.type = "string" THEN raw.value ELSE <<>>]

\* beforeLoad of /reset-password with the token check first
beforeLoadTokenFirst(to, s) ==
  IF to = "/reset-password" /\ s.token = <<>> THEN "/login"
  ELSE IF to # "/" /\ loggedIn THEN "/"
  ELSE to

\* beforeLoad of the route to with the validated search s: the route a
\* redirect is thrown to, or the route itself
beforeLoad(to, s) ==
  IF to # "/" /\ loggedIn THEN "/"
  ELSE IF to = "/reset-password" /\ s.token = <<>> THEN "/login"
  ELSE to

\* the redirects thrown from the route r on, followed until a route loads
\* (a redirect carries no search; no chain is longer than two)
Redirects(r, s) ==
  IF beforeLoad(r, s) = r THEN <<>>
  ELSE IF beforeLoad(beforeLoad(r, s), [token |-> <<>>]) = beforeLoad(r, s)
    THEN <<beforeLoad(r, s)>>
  ELSE <<beforeLoad(r, s),
         beforeLoad(beforeLoad(r, s), [token |-> <<>>])>>

\* The router loads the route to with the token raw: the guards run, a
\* redirect is followed and its target is guarded in turn.
Navigate(to, raw) ==
  /\ location' =
       [href |-> <<to, raw>>,
        redirects |-> Redirects(to, validateSearch(raw)),
        pathname |->
          IF Redirects(to, validateSearch(raw)) = <<>> THEN to
          ELSE Redirects(to, validateSearch(raw))[
                 Len(Redirects(to, validateSearch(raw)))]]
  /\ search' =
       IF beforeLoad(to, validateSearch(raw)) = to
         THEN validateSearch(raw) ELSE [token |-> <<>>]
  /\ UNCHANGED loggedIn
  /\ UNCHANGED <<cardVars, formVars, searchVars, emailVars>>

\* The user logs in or out: isLoggedIn() returns in from now on
Authenticate(in) ==
  /\ loggedIn' = in
  /\ UNCHANGED <<location, search>>
  /\ UNCHANGED <<cardVars, formVars, searchVars, emailVars>>

NextRoute ==
  \/ \E to \in Routes, raw \in RawTokens : Navigate(to, raw)
  \/ \E in \in BOOLEAN : Authenticate(in)

SpecRoute == Init /\ [][NextRoute]_vars

\* ------------------------------------------------------------------------
\* The change-email form (features/settings/components/ChangeEmail and
\* its older copy in components/UserSettings) with useChangeEmail.  The
\* two copies differ in where onSuccess toggles the edit mode (an option of
\* mutate, an option of useMutation); with the buttons as rendered both
\* run toggleEditMode of a render in edit mode.  LoadingButton is not part
\* of the sources: it is taken to be disabled while loading.
\* ------------------------------------------------------------------------
\* the most update requests followed
MaxRequests == 2

\* the email the server holds: that of the last update that succeeded
RECURSIVE ServerEmail(_)
ServerEmail(log) ==
  IF log = <<>> THEN "a@x"
  ELSE IF log[Len(log)].outcome = "ok" THEN log[Len(log)].email
  ELSE ServerEmail(SubSeq(log, 1, Len(log) - 1))

\* The "Uredi" button, rendered when not in edit mode: toggleEditMode
EditClicked ==
  /\ ~editMode
  /\ editMode' = ~editMode
  /\ UNCHANGED <<email, currentUser, mutation, requests>>
  /\ UNCHANGED <<cardVars, formVars, searchVars, routeVars>>

\* The email input, rendered in edit mode, gets the text e
EmailTyped(e) ==
  /\ editMode
  /\ email' = e
  /\ UNCHANGED <<editMode, currentUser, mutation, requests>>
  /\ UNCHANGED <<cardVars, formVars, searchVars, routeVars>>

\* The "Spremi" button, enabled when the form is dirty (the email is not
\* the default the last reset set, currentUser.email) and no request is
\* pending; handleSubmit validates (z.email) and calls onSubmit.
onSubmit ==
  /\ editMode
  /\ email # currentUser
  /\ mutation.status = "idle"
  /\ email \in {"a@x", "b@x", "c@x"}
  /\ Len(requests) < MaxRequests
  /\ IF email = currentUser
       THEN /\ editMode' = ~editMode
            /\ UNCHANGED <<mutation, requests>>
       ELSE /\ mutation' = [status |-> "pending", email |-> email]
            /\ requests' =
                 Append(requests, [email |-> email, outcome |-> "pending"])
            /\ UNCHANGED editMode
  /\ UNCHANGED <<email, currentUser>>
  /\ UNCHANGED <<cardVars, formVars, searchVars, routeVars>>

\* The update request succeeds: the success toast, invalidateQueries (the
\* user is fetched again, see Refetched) and toggleEditMode
onSuccess ==
  /\ mutation.status = "pending"
  /\ requests' = [requests EXCEPT ![Len(requests)].outcome = "ok"]
  /\ mutation' = [status |-> "idle", email |-> ""]
  /\ editMode' = ~editMode
  /\ UNCHANGED <<email, currentUser>>
  /\ UNCHANGED <<cardVars, formVars, searchVars, routeVars>>

\* onError that leaves the edit mode as onSuccess does
onErrorLeaving ==
  /\ mutation.status = "pending"
  /\ requests' = [requests EXCEPT ![Len(requests)].outcome = "failed"]
  /\ mutation' = [status |-> "idle", email |-> ""]
  /\ editMode' = ~editMode
  /\ UNCHANGED <<email, currentUser>>
  /\ UNCHANGED <<cardVars, formVars, searchVars, routeVars>>

\* The update request fails: handleError shows the error toast
onError ==
  /\ mutation.status = "pending"
  /\ requests' = [requests EXCEPT ![Len(requests)].outcome = "failed"]
  /\ mutation' = [status |-> "idle", email |-> ""]
  /\ UNCHANGED <<editMode, email, currentUser>>
  /\ UNCHANGED <<cardVars, formVars, searchVars, routeVars>>

\* The "Odustani" button, rendered in edit mode and disabled while a
\* request is pending: form.reset({ email: currentUser.email }), then
\* toggleEditMode
onCancel ==
  /\ editMode
  /\ mutation.status = "idle"
  /\ email' = currentUser
  /\ editMode' = ~editMode
  /\ UNCHANGED <<currentUser, mutation, requests>>
  /\ UNCHANGED <<cardVars, formVars, searchVars, routeVars>>

\* The invalidated user query has fetched the user again: the render with
\* the new currentUser.email and its effect, form.reset({ email })
Refetched ==
  /\ currentUser # ServerEmail(requests)
  /\ currentUser' = ServerEmail(requests)
  /\ email' = ServerEmail(requests)
  /\ UNCHANGED <<editMode, mutation, requests>>
  /\ UNCHANGED <<cardVars, formVars, searchVars, routeVars>>

NextEmail ==
  \/ EditClicked
  \/ \E e \in {"a@x", "b@x", "c@x", "b"} : EmailTyped(e)
  \/ onSubmit
  \/ onSuccess
  \/ onError
  \/ onCancel
  \/ Refetched

SpecEmail == Init /\ [][NextEmail]_vars

\* ------------------------------------------------------------------------
\* Properties.  w, h: the dimensions a render read; a card is rendered when
\* a render of it has computed.
\* ------------------------------------------------------------------------
Rendered(c) == view[c].status # "none"

Drawn(c) == view[c].status = "ok"

WidthOf(c) == view[c].dims.width

HeightOf(c) == view[c].dims.height

ToothSizeOf(c) == view[c].props.toothSize

PositiveToothSize(c) == NumGreater(ToothSizeOf(c), Zero)

\* the number of samples of an edge, and the points, of a drawn card
SamplesOf(c) == ToInt(view[c].numPoints)

\* a canonical finite number is an even integer iff it is zero or e >= 1
IsEvenInteger(n) == n.k = "fin" /\ (n.m = <<>> \/ n.e >= 1)

IsOddInteger(n) == n.k = "fin" /\ n.m # <<>> /\ n.e = 0

AtLeast(n, k) == ~IsNaN(n) /\ NumCmp(n, FromInt(k)) >= 0

\* width / toothSize is a finite number
QuotientFinite(w, ts) == IsFinite(NumDiv(FromInt(w), ts))

TeethCase(c) ==
  /\ Rendered(c)
  /\ \/ WidthOf(c) = 0
     \/ WidthOf(c) > 0 /\ HeightOf(c) > 0 /\ PositiveToothSize(c)

\* C1 as claimed: for every width > 0, height > 0 and toothSize > 0 the
\* tooth count is an even integer and at least 4, and so is the fallback
\* count used when width = 0.
C1_AsClaimed ==
  \A c \in Cards :
    TeethCase(c) => IsEvenInteger(view[c].teeth) /\ AtLeast(view[c].teeth, 4)

\* Where the quotient is finite: for every width > 0, height > 0 and
\* toothSize > 0 whose quotient width / toothSize does not overflow to
\* Infinity the tooth count is an even integer and at least 4, and so is
\* the fallback count used when width = 0.
C1_TeethEvenAtLeastFour ==
  \A c \in Cards :
    TeethCase(c) /\ (WidthOf(c) > 0 => QuotientFinite(WidthOf(c), ToothSizeOf(c)))
      => IsEvenInteger(view[c].teeth) /\ AtLeast(view[c].teeth, 4)

\* a render of a measured width whose raw count was odd and was rounded up
C1_Witness ==
  \E c \in Cards :
    /\ computed[c] = 2 /\ TeethCase(c) /\ WidthOf(c) > 0
    /\ QuotientFinite(WidthOf(c), ToothSizeOf(c))
    /\ IsOddInteger(RawTeeth(FromInt(WidthOf(c)), ToothSizeOf(c)))
    /\ IsEvenInteger(view[c].teeth)

\* C2: for width > 0, height > 0, toothSize > 0 the first and the last
\* sample of the top edge have y = toothHeight and the first and the last
\* sample of the bottom edge have y = height - toothHeight.
C2_EdgesEndInValleys ==
  \A c \in Cards :
    Drawn(c) /\ WidthOf(c) > 0 /\ HeightOf(c) > 0 /\ PositiveToothSize(c)
      => LET n   == SamplesOf(c)
             p   == view[c].points
             th  == view[c].props.toothHeight
             low == NumSub(FromInt(HeightOf(c)), th)
         IN  /\ n >= 1
             /\ Len(p) = 2 * n + 4
             /\ p[2].y = th /\ p[n + 1].y = th
             /\ p[n + 4].y = low /\ p[2 * n + 3].y = low

C2_Witness ==
  \E c \in Cards :
    /\ computed[c] = 2 /\ Drawn(c) /\ PositiveToothSize(c)
    /\ WidthOf(c) > 0 /\ HeightOf(c) > 0 /\ view[c].mask.applied
    /\ view[c].points[SamplesOf(c) + 1].y = view[c].props.toothHeight

\* C3 as claimed: for width > 0 and toothSize > 0 numPoints is odd, the
\* top-edge x-coordinates start at exactly 0, end at exactly width, are
\* non-decreasing, and none exceeds width.
C3_AsClaimed ==
  \A c \in Cards :
    Drawn(c) /\ WidthOf(c) > 0 /\ PositiveToothSize(c)
      => LET n == SamplesOf(c)
             p == view[c].points
             W == FromInt(WidthOf(c))
         IN  /\ IsOddInteger(view[c].numPoints)
             /\ p[2].x = Zero
             /\ p[n + 1].x = W
             /\ \A i \in 1..(n - 1) : NumCmp(p[i + 1].x, p[i + 2].x) <= 0
             /\ \A i \in 1..n : NumCmp(p[i + 1].x, W) <= 0

\* C4: the point string is (0,0), the numPoints top samples, (width,0),
\* (width,height), the numPoints bottom samples, (0,height): 2*numPoints+4
\* tokens; for width 200, height 50, toothSize 10, toothHeight 3 teeth is
\* 20, numPoints 41, spacing 5 and there are 86 tokens.
C4_TokenLayout ==
  \A c \in Cards :
    Drawn(c)
      => LET n  == SamplesOf(c)
             p  == view[c].points
             W  == FromInt(WidthOf(c))
             H  == FromInt(HeightOf(c))
             th == view[c].props.toothHeight
             sp == view[c].spacing
         IN  /\ Len(p) = 2 * n + 4
             /\ p[1] = Token(Zero, Zero)
             /\ \A i \in 0..(n - 1) :
                  p[i + 2] = Token(NumMul(FromInt(i), sp),
                                   IF i % 2 = 0 THEN th ELSE Zero)
             /\ p[n + 2] = Token(W, Zero)
             /\ p[n + 3] = Token(W, H)
             /\ \A i \in 0..(n - 1) :
                  p[n + 4 + i] = Token(NumSub(W, NumMul(FromInt(i), sp)),
                                       IF i % 2 = 0 THEN NumSub(H, th) ELSE H)
             /\ p[2 * n + 4] = Token(Zero, H)
             /\ (view[c].dims = Size(200, 50)
                 /\ view[c].props = Props(FromInt(10), FromInt(3)))
                  => /\ view[c].teeth = FromInt(20)
                     /\ n = 41
                     /\ sp = FromInt(5)
                     /\ Len(p) = 86

C4_Witness ==
  \E c \in Cards :
    /\ computed[c] = 2 /\ Drawn(c)
    /\ view[c].dims = Size(200, 50)
    /\ view[c].props = Props(FromInt(10), FromInt(3))
    /\ Len(view[c].points) = 86

DoublingGap(c) ==
  NumSub(Teeth(RawTeeth(FromInt(2 * WidthOf(c)), ToothSizeOf(c))),
         NumMul(FromInt(2), view[c].teeth))

WithinTwo(n) ==
  /\ ~IsNaN(n)
  /\ NumCmp(n, FromInt(-2)) >= 0
  /\ NumCmp(n, FromInt(2)) <= 0

\* C6 as claimed: for every width > 0 and toothSize > 0, teeth(2*width)
\* differs from 2*teeth(width) by at most 2.
C6_AsClaimed ==
  \A c \in Cards :
    Rendered(c) /\ WidthOf(c) > 0 /\ PositiveToothSize(c)
      => WithinTwo(DoublingGap(c))

\* Math.round(width / toothSize) is at least 4 (the minimum of 4 teeth does
\* not replace it) and the quotient of the doubled width is finite
DoublingCase(c) ==
  /\ Rendered(c) /\ WidthOf(c) > 0 /\ PositiveToothSize(c)
  /\ QuotientFinite(2 * WidthOf(c), ToothSizeOf(c))
  /\ AtLeast(MathRound(NumDiv(FromInt(WidthOf(c)), ToothSizeOf(c))), 4)

\* C6 amended: for every width > 0 and toothSize > 0 with
\* Math.round(width / toothSize) >= 4 and 2 * width / toothSize finite,
\* teeth(2*width) differs from 2*teeth(width) by at most 2.
C6_DoublingWithinTwo ==
  \A c \in Cards : DoublingCase(c) => WithinTwo(DoublingGap(c))

\* a render whose doubled width has two teeth fewer than twice its count
C6_Witness ==
  \E c \in Cards :
    /\ computed[c] = 2 /\ DoublingCase(c)
    /\ DoublingGap(c) = FromInt(-2)

\* C7: with width = 0 (any height, toothSize, toothHeight) the render does
\* not throw, the tooth count is the fallback 20, numPoints is 41, and
\* every coordinate of the point string is a finite number (no NaN from the
\* spacing division).
C7_ZeroWidthFallback ==
  \A c \in Cards :
    Rendered(c) /\ WidthOf(c) = 0
      => /\ Drawn(c)
         /\ view[c].teeth = FromInt(20)
         /\ view[c].numPoints = FromInt(41)
         /\ IsFinite(view[c].spacing)
         /\ Len(view[c].points) = 86
         /\ \A i \in 1..Len(view[c].points) :
              /\ IsFinite(view[c].points[i].x)
              /\ IsFinite(view[c].points[i].y)

\* a render after a measurement of width 0 and a positive height, with
\* toothSize 0
C7_Witness ==
  \E c \in Cards :
    /\ computed[c] = 2 /\ measured[c] = 1 /\ Drawn(c)
    /\ WidthOf(c) = 0 /\ HeightOf(c) > 0
    /\ ToothSizeOf(c) = Zero
    /\ Len(view[c].points) = 86

\* a mounted card that has rendered (200,50), its container now (400,50)
ResizeCase(c) ==
  /\ phase[c] = "mounted" /\ ref[c] /\ c \in Range(listeners)
  /\ ~dirty[c]
  /\ dimensions[c] = Size(200, 50) /\ view[c].dims = Size(200, 50)
  /\ container[c] = Size(400, 50)

\* the resize signal has been handled, the render of it is to come
PendingCase(c) ==
  /\ phase[c] = "mounted" /\ dirty[c]
  /\ dimensions[c] = Size(400, 50) /\ view[c].dims = Size(200, 50)

\* the tooth count of width 400 with the props of card c
TeethAtFourHundred(c) == IF props[c].toothSize = FromInt(10) THEN 40 ELSE 22

\* C8: a mounted card with dimensions (200,50) whose container measures
\* (400,50) takes, on a resize signal, exactly one measurement and no
\* render; the one render that follows computes once, with the tooth count
\* of width 400, and commits a mask whose viewBox and polygon are those of
\* (400,50), nothing of (200,50); no update is pending after it.
C8_ResizeOnce ==
  [][\A c \in Cards :
       /\ (ResizeCase(c)
           /\ (measured'[c] # measured[c] \/ dimensions'[c] # dimensions[c]))
            => /\ measured'[c] = measured[c] + 1
               /\ dimensions'[c] = Size(400, 50)
               /\ computed'[c] = computed[c]
               /\ view'[c] = view[c]
               /\ dirty'[c]
       /\ (ResizeCase(c) /\ computed'[c] # computed[c])
            => view'[c].points = view[c].points /\ view'[c].mask = view[c].mask
       /\ (PendingCase(c) /\ (computed'[c] # computed[c] \/ view'[c] # view[c]))
            => LET v == view'[c]
                   n == ToInt(v.numPoints)
               IN  /\ computed'[c] = computed[c] + 1
                   /\ measured'[c] = measured[c]
                   /\ ~dirty'[c]
                   /\ v.status = "ok"
                   /\ v.dims = Size(400, 50)
                   /\ v.teeth = FromInt(TeethAtFourHundred(c))
                   /\ v.spacing = NumDiv(FromInt(400), NumSub(v.numPoints,
                                                              FromInt(1)))
                   /\ v.mask.applied
                   /\ v.mask.viewBox = <<FromInt(400), FromInt(50)>>
                   /\ v.mask.points = v.points
                   /\ v.points # view[c].points
                   /\ v.points[n + 2] = Token(FromInt(400), Zero)
                   /\ v.points[n + 4].x = FromInt(400)
                   /\ \A i \in 0..(n - 1) :
                        v.points[i + 2].x = NumMul(FromInt(i), v.spacing)]_vars

\* the resize signal of the case has been handled: measured twice, the
\* render of (400,50) pending over the committed (200,50)
C8_Witness ==
  \E c \in Cards :
    /\ PendingCase(c) /\ measured[c] = 2 /\ computed[c] = 2
    /\ container[c] = Size(400, 50)
    /\ view[c].mask.viewBox = <<FromInt(200), FromInt(50)>>

\* C9: in every rendered state a mask is applied if and only if the
\* dimensions the render read have width > 0 and height > 0; otherwise the
\* mask style is undefined; when no update is pending those dimensions are
\* the dimensions state.
C9_MaskIffMeasured ==
  \A c \in Cards :
    Drawn(c)
      => /\ view[c].mask.applied <=> (WidthOf(c) > 0 /\ HeightOf(c) > 0)
         /\ ~view[c].mask.applied => view[c].mask = Undefined
         /\ view[c].mask.applied
              => /\ view[c].mask.viewBox
                      = <<FromInt(WidthOf(c)), FromInt(HeightOf(c))>>
                 /\ view[c].mask.points = view[c].points
         /\ ~dirty[c] => view[c].dims = dimensions[c]

\* a render of a measured width > 0 with height 0: no mask
C9_Witness ==
  \E c \in Cards :
    /\ computed[c] = 2 /\ Drawn(c) /\ ~dirty[c]
    /\ WidthOf(c) > 0 /\ HeightOf(c) = 0
    /\ view[c].mask = Undefined

\* C10: an unmounted instance (its effect cleanup has run) has no listener
\* on the window, every listener belongs to one instance that ran its
\* effect, and no resize signal measures the container of, or changes the
\* dimensions of, an instance that has left the tree.
C10_NoListenerAfterUnmount ==
  /\ [](\A c \in Cards :
          /\ phase[c] \in {"none", "rendered"} => c \notin Range(listeners)
          /\ phase[c] = "mounted" => c \in Range(listeners)
          /\ Cardinality({i \in DOMAIN listeners : listeners[i] = c}) <= 1)
  /\ [][\A c \in Cards :
          (phase[c] \in {"none", "detached"} /\ phase'[c] = phase[c])
            => /\ dimensions'[c] = dimensions[c]
               /\ measured'[c] = measured[c]
               /\ dirty'[c] = dirty[c]]_vars

\* card "a" was mounted, measured and unmounted; only the listener of the
\* mounted card "b" is left, and a later resize signal has reached it
C10_Witness ==
  /\ phase["a"] = "none" /\ measured["a"] = 1
  /\ phase["b"] = "mounted" /\ measured["b"] = 2
  /\ listeners = <<"b">>

\* the container of a mounted card has another size than its dimensions state
StaleCase(c) ==
  phase[c] = "mounted" /\ ref[c] /\ dimensions[c] # container[c]

\* C11 as claimed: whenever the rendered width or height of a mounted
\* card's container changes, the dimensions state eventually equals the
\* container's current size (or the card is unmounted first).
C11_AsClaimed ==
  \A c \in Cards :
    StaleCase(c) ~> (phase[c] # "mounted" \/ dimensions[c] = container[c])

\* the first render of the instance is committed, its mount effect has not
\* run: no measurement has been taken
BeforeMeasurement(c) == phase[c] = "rendered"

\* C12: from the creation of an instance until its mount-time measurement
\* the dimensions state is (0,0) and every render commits the children
\* without a mask; the mount-time measurement stores the container's
\* measured width and height.
C12_ZeroUntilMeasured ==
  /\ [](\A c \in Cards :
          BeforeMeasurement(c)
            => /\ dimensions[c] = Unmeasured
               /\ measured[c] = 0
               /\ Drawn(c)
               /\ view[c].dims = Unmeasured
               /\ view[c].mask = Undefined)
  /\ [][\A c \in Cards :
          /\ (phase[c] = "none" /\ phase'[c] # "none")
               => BeforeMeasurement(c)' /\ dimensions'[c] = Unmeasured
          /\ (BeforeMeasurement(c) /\ ~BeforeMeasurement(c)')
               => /\ phase'[c] = "mounted"
                  /\ measured'[c] = 1
                  /\ dimensions'[c] = container[c]
                  /\ container'[c] = container[c]]_vars

\* a card has rendered twice before its mount effect, its container laid
\* out at (200,50), the other card being mounted with a mask
C12_Witness ==
  \E c \in Cards :
    /\ BeforeMeasurement(c) /\ computed[c] = 2
    /\ container[c] = Size(200, 50)
    /\ view[c].mask = Undefined
    /\ \E d \in Cards \ {c} : phase[d] = "mounted" /\ view[d].mask.applied

\* C13 as claimed: for every toothSize > 0, every toothHeight and every
\* non-negative dimensions (height 0 included) the render computes the
\* tooth count, the point string and the mask without an error.
C13_AsClaimed ==
  \A c \in Cards :
    (Rendered(c) /\ PositiveToothSize(c)
       /\ WidthOf(c) >= 0 /\ HeightOf(c) >= 0)
      => Drawn(c)

\* C14: on every resize signal, a card whose listener is registered gets
\* its dimensions state set to the size its container has at that moment
\* (one measurement, one state update) if its ref is attached; if the ref
\* is not attached the signal leaves its dimensions state as it was; a
\* card without a registered listener is not touched.
C14_ResizeMeasuresIfAttached ==
  [][WindowResize
       => \A c \in Cards :
            /\ (c \in Range(listeners) /\ ref[c])
                 => /\ dimensions'[c] = container[c]
                    /\ container'[c] = container[c]
                    /\ measured'[c] = measured[c] + 1
                    /\ dirty'[c]
            /\ ~(c \in Range(listeners) /\ ref[c])
                 => /\ dimensions'[c] = dimensions[c]
                    /\ measured'[c] = measured[c]
                    /\ dirty'[c] = dirty[c]]_vars

\* card "a" registered its listener before card "b" did and has left the
\* tree, its cleanup still to run, its container last laid out at another
\* size than it measured; "b" has handled a resize signal, which reached
\* "a" with its ref detached: "a" has still measured once
C14_Witness ==
  /\ listeners = <<"a", "b">>
  /\ phase["a"] = "detached" /\ ~ref["a"]
  /\ measured["a"] = 1 /\ dimensions["a"] # container["a"]
  /\ phase["b"] = "mounted" /\ measured["b"] = 2
  /\ dimensions["b"] = container["b"]

\* the step is the mount-time measurement of card c
MountMeasurement(c) ==
  /\ phase[c] = "rendered" /\ phase'[c] = "mounted"
  /\ ref[c] /\ dimensions'[c] = container[c]
  /\ measured'[c] = measured[c] + 1

\* the step is a resize signal handled by the listener of card c
OwnResizeHandler(c) ==
  /\ c \in Range(listeners) /\ ref[c]
  /\ phase' = phase /\ listeners' = listeners
  /\ dimensions'[c] = container[c]
  /\ measured'[c] = measured[c] + 1

\* C15: the dimensions state of an instance changes only in its own
\* mount-time measurement and in its own resize handler, and no render is
\* committed in such a step; every render (the parent's re-render, a
\* render with other toothSize / toothHeight, the render of a pending
\* update, with its path generation and mask) leaves the dimensions state
\* unchanged, as does everything that happens to another card.
C15_OnlyMeasurementsChangeDimensions ==
  [][\A c \in Cards :
       /\ (phase[c] # "none" /\ dimensions'[c] # dimensions[c])
            => /\ MountMeasurement(c) \/ OwnResizeHandler(c)
               /\ view' = view /\ props' = props /\ computed' = computed
       /\ (phase[c] # "none"
             /\ (view'[c] # view[c] \/ props'[c] # props[c]
                   \/ computed'[c] # computed[c]))
            => dimensions'[c] = dimensions[c]]_vars

\* a mounted card has been rendered with other tooth parameters than its
\* definition's on the dimensions it measured: the mask is that of the
\* measured size and the new parameters
C15_Witness ==
  \E c \in Cards :
    /\ phase[c] = "mounted" /\ props[c] # DefaultProps[c]
    /\ measured[c] = 1 /\ computed[c] = 3 /\ ~dirty[c]
    /\ dimensions[c] = Size(400, 50)
    /\ view[c].props = props[c] /\ view[c].dims = Size(400, 50)
    /\ view[c].mask.applied

Registered(c) == phase[c] \in {"mounted", "detached"}

\* the number of listeners of card c on the window
ListenersOf(c) == Cardinality({i \in DOMAIN listeners : listeners[i] = c})

\* C17: after any interleaving of creations, mounts, layouts, resize
\* signals, renders and unmounts of the cards, every card has exactly one
\* listener on the window from its mount effect to its effect cleanup and
\* none otherwise, so the number of listeners is the number of such cards;
\* and a resize signal sets the dimensions state of each mounted card to
\* the size of that card's own container, not another card's.
C17_OneListenerPerCard ==
  /\ []((\A c \in Cards :
            ListenersOf(c) = IF Registered(c) THEN 1 ELSE 0)
         /\ Len(listeners) = Cardinality({d \in Cards : Registered(d)}))
  /\ [][WindowResize
          => \A c \in Cards :
               phase[c] = "mounted"
                 => /\ dimensions'[c] = container[c]
                    /\ \A d \in Cards \ {c} :
                         container[d] # container[c]
                           => dimensions'[c] # container[d]]_vars

\* both cards are mounted, each with its listener, their containers of
\* different sizes; a resize signal has reached both (each has measured
\* twice) and each holds the size of its own container
C17_Witness ==
  /\ \A c \in Cards : phase[c] = "mounted" /\ measured[c] = 2 /\ dirty[c]
  /\ Len(listeners) = 2
  /\ container["a"] = Size(200, 50) /\ container["b"] = Size(400, 50)
  /\ dimensions["a"] = Size(200, 50) /\ dimensions["b"] = Size(400, 50)

\* the sizes a measurement can give, and the initial state
Measurable == LifeSizes \cup {Unmeasured}

\* C18: width and height of the dimensions state come from one and the
\* same measurement: every change of the state of an instance stores the
\* width and the height the container has at that one step, every render
\* reads the state whole, so no rendered state pairs the width of one
\* measurement with the height of another (or of the initial state); and
\* the viewBox and the polygon of an applied mask are those of the very
\* dimensions the render read.
C18_OneMeasurement ==
  /\ [](\A c \in Cards :
          /\ dimensions[c] \in Measurable
          /\ view[c].dims \in Measurable
          /\ (Drawn(c) /\ view[c].mask.applied)
               => /\ view[c].mask.viewBox
                       = <<FromInt(WidthOf(c)), FromInt(HeightOf(c))>>
                  /\ view[c].mask.points = view[c].points
                  /\ view[c].points
                       = Generate(view[c].dims, view[c].props).points)
  /\ [][\A c \in Cards :
          /\ (phase[c] # "none" /\ dimensions'[c] # dimensions[c])
               => dimensions'[c] = container[c]
          /\ (phase[c] # "none" /\ computed'[c] # computed[c]
                /\ phase'[c] # "none")
               => view'[c].dims = dimensions[c]]_vars

\* a card measured (200,50) at mount and (400,50) on a resize signal and
\* has rendered both; its mask is that of (400,50); the other card shows
\* the mask of (200,50)
C18_Witness ==
  \E c \in Cards :
    /\ phase[c] = "mounted" /\ measured[c] = 2 /\ computed[c] = 3
    /\ ~dirty[c] /\ dimensions[c] = Size(400, 50)
    /\ view[c].dims = Size(400, 50) /\ view[c].mask.applied
    /\ view[c].mask.viewBox = <<FromInt(400), FromInt(50)>>
    /\ \E d \in Cards \ {c} :
         /\ view[d].dims = Size(200, 50)
         /\ view[d].mask.viewBox = <<FromInt(200), FromInt(50)>>

\* the tooth count of a drawn card, an integer
TeethOf(c) == ToInt(view[c].teeth)

\* sample i (0-based) of the top edge and of the bottom edge of a drawn
\* card: the point string is (0,0), top, (width,0), (width,height), bottom,
\* (0,height)
TopSample(c, i) == view[c].points[i + 2]

BottomSample(c, i) == view[c].points[SamplesOf(c) + 4 + i]

\* C19: the top edge has numPoints = 2*teeth + 1 samples; sample i has
\* x = i * spacing and y = toothHeight when i is even (valley), y = 0 when
\* i is odd (peak); valleys and peaks alternate strictly, there are
\* teeth + 1 valleys and teeth peaks.
C19_TopEdgeAlternates ==
  \A c \in Cards :
    Drawn(c)
      => LET n  == SamplesOf(c)
             th == view[c].props.toothHeight
         IN  /\ n = 2 * TeethOf(c) + 1
             /\ Len(view[c].points) = 2 * n + 4
             /\ \A i \in 0..(n - 1) :
                  /\ TopSample(c, i).x = NumMul(FromInt(i), view[c].spacing)
                  /\ TopSample(c, i).y = IF i % 2 = 0 THEN th ELSE Zero
             /\ \A i \in 0..(n - 2) :
                  (TopSample(c, i).y = th) # (TopSample(c, i + 1).y = th)
             /\ Cardinality({i \in 0..(n - 1) : TopSample(c, i).y = th})
                  = TeethOf(c) + 1
             /\ Cardinality({i \in 0..(n - 1) : TopSample(c, i).y = Zero})
                  = TeethOf(c)

\* a render of width 24 with toothSize 5/2: 10 teeth, 21 samples, 11
\* valleys, spacing 6/5
C19_Witness ==
  \E c \in Cards :
    /\ computed[c] = 2 /\ Drawn(c)
    /\ WidthOf(c) = 24 /\ ToothSizeOf(c) = Dyadic(5, -1)
    /\ TeethOf(c) = 10 /\ SamplesOf(c) = 21
    /\ TopSample(c, 20).y = view[c].props.toothHeight
    /\ TopSample(c, 19).y = Zero
    /\ TopSample(c, 1).x = view[c].spacing

\* C20 as claimed: the bottom edge mirrors the top one: sample i has
\* x = width - i * spacing, descending from width to 0, and
\* y = height - toothHeight when i is even, y = height when i is odd; for
\* every i the x of top sample i and the x of bottom sample i sum to width.
C20_AsClaimed ==
  \A c \in Cards :
    Drawn(c)
      => LET n  == SamplesOf(c)
             W  == FromInt(WidthOf(c))
             H  == FromInt(HeightOf(c))
             th == view[c].props.toothHeight
         IN  /\ \A i \in 0..(n - 1) :
                  /\ BottomSample(c, i).x
                       = NumSub(W, NumMul(FromInt(i), view[c].spacing))
                  /\ BottomSample(c, i).y
                       = IF i % 2 = 0 THEN NumSub(H, th) ELSE H
                  /\ NumAdd(TopSample(c, i).x, BottomSample(c, i).x) = W
             /\ \A i \in 0..(n - 2) :
                  NumCmp(BottomSample(c, i).x, BottomSample(c, i + 1).x) >= 0
             /\ BottomSample(c, 0).x = W
             /\ BottomSample(c, n - 1).x = Zero

\* max(4, round(width / toothSize)) for the width and toothSize a render
\* read
RawOf(c) ==
  MathMax(FromInt(4), MathRound(NumDiv(FromInt(WidthOf(c)), ToothSizeOf(c))))

\* C21: for width > 0 and toothSize > 0 the tooth count is
\* max(4, round(width / toothSize)) when that value is even and that value
\* plus 1 when it is odd; it is never below the raw value and never more
\* than 1 above it.
C21_RoundedUpToEven ==
  \A c \in Cards :
    (Rendered(c) /\ WidthOf(c) > 0 /\ PositiveToothSize(c))
      => /\ IsEvenInteger(RawOf(c)) => view[c].teeth = RawOf(c)
         /\ IsOddInteger(RawOf(c))
              => view[c].teeth = NumAdd(RawOf(c), FromInt(1))
         /\ view[c].teeth \in {RawOf(c), NumAdd(RawOf(c), FromInt(1))}
         /\ NumCmp(view[c].teeth, RawOf(c)) >= 0
         /\ NumCmp(view[c].teeth, NumAdd(RawOf(c), FromInt(1))) <= 0

\* a render of width 21 with toothSize 1: the raw count 21 is odd, the
\* tooth count is 22
C21_Witness ==
  \E c \in Cards :
    /\ computed[c] = 2 /\ Drawn(c)
    /\ WidthOf(c) = 21 /\ ToothSizeOf(c) = FromInt(1)
    /\ RawOf(c) = FromInt(21) /\ view[c].teeth = FromInt(22)

\* the step commits a render of card c
RenderCommitted(c) == computed'[c] # computed[c] /\ phase'[c] # "none"

\* C22: nothing is cached.  Every render a card commits shows the points
\* and the mask the generator gives for the dimensions state and the
\* toothSize / toothHeight of that render, whatever was shown before; so
\* once no update is pending, what is shown is the generator's output for
\* the card's current dimensions and tooth parameters.
C22_NothingCached ==
  /\ [][\A c \in Cards :
          RenderCommitted(c)
            => /\ view'[c] = Generate(dimensions'[c], props'[c])
               /\ view'[c].dims = dimensions'[c]
               /\ view'[c].props = props'[c]]_vars
  /\ [](\A c \in Cards :
          (Drawn(c) /\ ~dirty[c])
            => /\ view[c].points = Generate(dimensions[c], props[c]).points
               /\ view[c].mask = Generate(dimensions[c], props[c]).mask)

\* card "a" rendered (0,0), then (400,50) after a resize signal, then was
\* rendered with the other tooth parameters: 22 teeth for toothSize 18 on
\* the same dimensions
C22_Witness ==
  /\ phase["a"] = "mounted" /\ measured["a"] = 2 /\ computed["a"] = 3
  /\ ~dirty["a"] /\ dimensions["a"] = Size(400, 50)
  /\ props["a"] = DefaultProps["b"]
  /\ view["a"].props = DefaultProps["b"]
  /\ view["a"].teeth = FromInt(22)
  /\ view["a"].mask.viewBox = <<FromInt(400), FromInt(50)>>

\* a render of a measured width > 0 with toothSize <= 0
UnguardedCase(c) ==
  /\ Rendered(c) /\ WidthOf(c) > 0
  /\ ~IsNaN(ToothSizeOf(c)) /\ ~PositiveToothSize(c)

HeightCase(c) ==
  /\ Drawn(c)
  /\ NumCmp(view[c].props.toothHeight, Zero) >= 0
  /\ NumCmp(FromInt(HeightOf(c)),
            NumMul(FromInt(2), view[c].props.toothHeight)) >= 0

\* the number lies in the closed interval [0, hi]
Inside(x, hi) == ~IsNaN(x) /\ NumCmp(x, Zero) >= 0 /\ NumCmp(x, hi) <= 0

\* C24 as claimed: for toothHeight >= 0 and height >= 2 * toothHeight every
\* y of the top edge is 0 or toothHeight, every y of the bottom edge is
\* height - toothHeight or height, every top y is at most every bottom y,
\* and every coordinate of the polygon lies in [0, width] x [0, height].
C24_AsClaimed ==
  \A c \in Cards :
    HeightCase(c)
      => LET n  == SamplesOf(c)
             W  == FromInt(WidthOf(c))
             H  == FromInt(HeightOf(c))
             th == view[c].props.toothHeight
         IN  /\ \A i \in 0..(n - 1) :
                  /\ TopSample(c, i).y \in {Zero, th}
                  /\ BottomSample(c, i).y \in {NumSub(H, th), H}
             /\ \A i, j \in 0..(n - 1) :
                  NumCmp(TopSample(c, i).y, BottomSample(c, j).y) <= 0
             /\ \A k \in 1..Len(view[c].points) :
                  /\ Inside(view[c].points[k].x, W)
                  /\ Inside(view[c].points[k].y, H)

\* ------------------------------------------------------------------------
\* The manual receipt form and DecimalFormField
\* ------------------------------------------------------------------------
\* C25: in the manual receipt form, after any sequence of quantity edits,
\* price edits, item appends and item removals, total_amount is the sum of
\* the current items' total_price (added in order, from 0) rounded to two
\* decimals (Math.round(x * 100) / 100), and tax_amount is
\* total_amount - total_amount / 1.17 rounded to two decimals.
C25_TotalsFollowItems ==
  /\ total_amount = Total(items)
  /\ tax_amount = Pdv(total_amount)

\* Two items with total prices 0.25 (1 x .25) and 0.06 (.25 x .25 = .0625,
\* rounded), after an append and edits: the total is 0.31 and the tax is
\* 0.05 (0.31 - 0.31 / 1.17 = 0.04504...)
C25_Witness ==
  /\ Len(items) = 2
  /\ items[1].total_price = Number(<<".", "0", "6">>)
  /\ items[2].total_price = Number(<<".", "2", "5">>)
  /\ total_amount = Number(<<".", "3", "1">>)
  /\ tax_amount = Number(<<".", "0", "5">>)

\* a cleared field taken as d
Cleared(x, d) == IF x = NoValue THEN d ELSE x

\* C26: after any sequence of quantity and price edits of an item (clearing
\* either field included), the item's total_price is price x quantity
\* rounded to two decimals, a cleared price counting as 0 and a cleared
\* quantity counting as one and the same number (0 or 1) in both
\* handlers.
C26_AsClaimed ==
  \E d \in {Zero, FromInt(1)} :
    \A i \in DOMAIN items :
      items[i].total_price =
        Products[Cleared(items[i].price, Zero),
                 Cleared(items[i].quantity, d)]

\* all characters of t are digits or dots, with at most one dot
DigitsAndDot(t) ==
  /\ \A i \in 1..Len(t) : IsDigit(t[i]) \/ t[i] = "."
  /\ Cardinality({i \in 1..Len(t) : t[i] = "."}) <= 1

\* what the input shows: the textValue, or the form value if there is none
Shown(f) ==
  [text |-> f.textValue,
   value |-> IF f.textValue.defined THEN NoValue ELSE f.value]

NonNegative(x) == x.k \in {"fin", "Inf"} /\ x.s = 1

\* C27: a text typed into a DecimalFormField that is not digits with at
\* most one dot leaves the shown text and the form value as they were; a
\* text that is, is shown, and sets the form value to undefined if it is ""
\* or "." and to the number it spells otherwise; the form value is always
\* undefined or a non-negative number.
C27_OnlyDecimalsAccepted ==
  /\ [][~DigitsAndDot(field'.typed.text)
          => Shown(field') = Shown(field) /\ field'.value = field.value]_vars
  /\ [](field.typed.defined /\ DigitsAndDot(field.typed.text)
          => /\ field.textValue = field.typed
             /\ field.value =
                  IF field.typed.text \in {<<>>, <<".">>}
                    THEN NoValue ELSE Number(field.typed.text))
  /\ [](field.value = NoValue \/ NonNegative(field.value))

\* "-5" was typed into a field that shows ".5" and holds 0.5: both stay
C27_Witness ==
  /\ field.typed = TextOf(<<"-", "5">>)
  /\ field.textValue = TextOf(<<".", "5">>)
  /\ field.value = Number(<<".", "5">>)

\* ------------------------------------------------------------------------
\* The receipts page
\* ------------------------------------------------------------------------
\* C28: on the receipts page, typing in the search bar changes only
\* inputValue; the query (the key of the receipts fetch) changes only when
\* Enter is pressed or the search button is clicked, and then becomes the
\* inputValue of that moment; switching between list and grid view never
\* changes the query.
C28_QueryCommittedOnDemand ==
  [][/\ inputValue' # inputValue => UNCHANGED <<query, viewMode>>
     /\ (\E t \in Texts : setInputValue(t)) => UNCHANGED <<query, viewMode>>
     /\ queryKey' # queryKey
          => /\ handleKeyDown("Enter") \/ SearchClicked
             /\ query' = inputValue
     /\ handleKeyDown("Enter") \/ SearchClicked => query' = inputValue
     /\ viewMode' # viewMode => UNCHANGED queryKey]_vars

\* "5" was committed, then "50" typed and the grid view chosen: the query
\* is still "5"
C28_Witness ==
  /\ query = <<"5">>
  /\ inputValue = <<"5", "0">>
  /\ viewMode = "grid"

\* ------------------------------------------------------------------------
\* The route guards
\* ------------------------------------------------------------------------
Guarded == {"/login", "/recover-password", "/reset-password"}

\* the route that was asked for
Asked(l) == l.href[1]

\* C29: a navigation never enters the login, recover-password or
\* reset-password page while the user is logged in: asked for one of them,
\* a logged-in user is redirected to "/" and to nothing else, whatever
\* the token; the reset-password page is entered only with a non-empty
\* token, and a user who is not logged in and asks for it without one is
\* redirected to "/login".
C29_GuardedEntry ==
  [][location' # location =>
       /\ location'.pathname \in Guarded => ~loggedIn
       /\ loggedIn /\ Asked(location') \in Guarded
            => location'.redirects = <<"/">> /\ location'.pathname = "/"
       /\ location'.pathname = "/reset-password" => search'.token # <<>>
       /\ /\ ~loggedIn
          /\ Asked(location') = "/reset-password"
          /\ validateSearch(location'.href[2]).token = <<>>
          => location'.redirects = <<"/login">>
               /\ location'.pathname = "/login"]_vars

\* A logged-in user asked for /reset-password without a token and is on
\* "/", not on "/login"
C29_Witness ==
  /\ loggedIn
  /\ location.href =
       <<"/reset-password", [type |-> "undefined", value |-> <<>>]>>
  /\ location.redirects = <<"/">>
  /\ location.pathname = "/"

====
